---------------------------- MODULE Spec2Model ----------------------------
(***************************************************************************)
(* Ride-sharing core: the grid-stepping A* fallback pathfinder, the hybrid *)
(* recommendation pipeline, the profile learner, routing, the ride        *)
(* service and its rides table, the fare, and the pickup field of the     *)
(* search form with its debounced functions.                              *)
(*                                                                         *)
(* Numbers.  Coordinates are integers counting 0.0001 degrees, which is    *)
(* the tolerance the pathfinder compares locations with.  Distances are    *)
(* whole metres.  haversineDistance is modelled by the planar distance     *)
(* near the equator (cos(lat) = 1), rounded down to the metre.             *)
(***************************************************************************)
EXTENDS Integers, Sequences, FiniteSets, TLC

(***************************************************************************)
(* Bounds of the model                                                     *)
(***************************************************************************)
MaxWaypoints == 1
MaxIter == 30
MaxRides == 3
MaxCalls == 2
MaxAlternatives == 3
MaxPriceMetres == 20
MaxPeers == 12
MaxStoreCalls == 3

\* The change events of the pickup input, and the time the clock runs to, in
\* steps of TickLength milliseconds
MaxEdits == 3
MaxTime == 1200
TickLength == 300

(***************************************************************************)
(* Program constants                                                       *)
(***************************************************************************)
EARTH_RADIUS_KM == 6371
\* step = 0.01 degrees, in units of 0.0001 degrees
Step == 100
\* Math.abs(..) < 0.0001 degrees, in units of 0.0001 degrees
Tolerance == 1
\* haversineDistance(current.location, segmentEnd) < 0.1 km, in metres
GoalRadius == 100

(***************************************************************************)
(* Integer helpers                                                         *)
(***************************************************************************)
Abs(x) == IF x < 0 THEN -x ELSE x

\* The element of a one-element set; { e : x \in {v} } names v once in e.
Only(S) == CHOOSE x \in S : TRUE

RECURSIVE ISqrtBetween(_, _, _)
ISqrtBetween(n, lo, hi) ==
  IF lo >= hi THEN lo
  ELSE Only({ IF mid * mid <= n THEN ISqrtBetween(n, mid, hi)
              ELSE ISqrtBetween(n, lo, mid - 1) :
              mid \in {(lo + hi + 1) \div 2} })

\* Math.sqrt, rounded down
ISqrt(n) == Only({ ISqrtBetween(m, 0, 46340) : m \in {n} })

(***************************************************************************)
(* JavaScript numbers of the scoring code: exact fractions n/d, together   *)
(* with NaN, +Infinity and -Infinity and the IEEE rules for them.          *)
(***************************************************************************)
RECURSIVE GCD(_, _)
GCD(a, b) == IF b = 0 THEN a ELSE GCD(b, a % b)

\* The fraction n/d (d # 0) in lowest terms, the sign in the numerator.
Fin(n, d) ==
  LET g == GCD(Abs(n), Abs(d))
      s == IF d < 0 THEN -1 ELSE 1
  IN  [k |-> "fin", n |-> (s * n) \div g, d |-> Abs(d) \div g]

N(i) == [k |-> "fin", n |-> i, d |-> 1]
NaN == [k |-> "nan", n |-> 0, d |-> 1]
PInf == [k |-> "inf", n |-> 1, d |-> 1]
NInf == [k |-> "inf", n |-> -1, d |-> 1]

IsNaN(x) == x.k = "nan"
IsFin(x) == x.k = "fin"
Sign(x) == IF x.n > 0 THEN 1 ELSE IF x.n < 0 THEN -1 ELSE 0
InfOf(sgn) == IF sgn > 0 THEN PInf ELSE NInf

FNeg(x) == IF IsNaN(x) THEN NaN ELSE [x EXCEPT !.n = -x.n]

FAdd(x, y) ==
  IF IsNaN(x) \/ IsNaN(y) THEN NaN
  ELSE IF x.k = "inf" /\ y.k = "inf" THEN (IF x.n = y.n THEN x ELSE NaN)
  ELSE IF x.k = "inf" THEN x
  ELSE IF y.k = "inf" THEN y
  ELSE LET g == GCD(x.d, y.d)
       IN  Fin(x.n * (y.d \div g) + y.n * (x.d \div g), (x.d \div g) * y.d)

FSub(x, y) == FAdd(x, FNeg(y))

FMul(x, y) ==
  IF IsNaN(x) \/ IsNaN(y) THEN NaN
  ELSE IF x.k = "inf" \/ y.k = "inf"
       THEN (IF Sign(x) * Sign(y) = 0 THEN NaN ELSE InfOf(Sign(x) * Sign(y)))
  ELSE LET g1 == GCD(Abs(x.n), y.d)
           g2 == GCD(Abs(y.n), x.d)
       IN  Fin((x.n \div g1) * (y.n \div g2), (x.d \div g2) * (y.d \div g1))

FDiv(x, y) ==
  IF IsNaN(x) \/ IsNaN(y) THEN NaN
  ELSE IF y.k = "inf" THEN (IF x.k = "inf" THEN NaN ELSE N(0))
  ELSE IF y.n = 0 THEN (IF Sign(x) = 0 THEN NaN ELSE InfOf(Sign(x)))
  ELSE IF x.k = "inf" THEN InfOf(Sign(x) * Sign(y))
  ELSE FMul(x, Fin(y.d, y.n))

\* x < y; false when either is NaN
FLt(x, y) ==
  /\ ~IsNaN(x)
  /\ ~IsNaN(y)
  /\ IF x.k = "inf" THEN x.n < 0 /\ y # x
     ELSE IF y.k = "inf" THEN y.n > 0
     ELSE x.n * y.d < y.n * x.d

FGt(x, y) == FLt(y, x)
FEq(x, y) == ~IsNaN(x) /\ ~IsNaN(y) /\ x = y
FLe(x, y) == FLt(x, y) \/ FEq(x, y)
FGe(x, y) == FLe(y, x)

\* Math.max, Math.min, Math.abs: NaN when an argument is NaN
FMax(x, y) == IF IsNaN(x) \/ IsNaN(y) THEN NaN ELSE IF FLt(x, y) THEN y ELSE x
FMin(x, y) == IF IsNaN(x) \/ IsNaN(y) THEN NaN ELSE IF FLt(y, x) THEN y ELSE x
FAbs(x) == IF IsNaN(x) THEN NaN ELSE [x EXCEPT !.n = Abs(x.n)]

\* x || 0: NaN and 0 are falsy
OrZero(x) == IF IsNaN(x) \/ (IsFin(x) /\ x.n = 0) THEN N(0) ELSE x

\* array.reduce((sum, v) => sum + v, 0)
RECURSIVE SumNum(_)
SumNum(s) ==
  IF s = <<>> THEN N(0)
  ELSE FAdd(SumNum(SubSeq(s, 1, Len(s) - 1)), s[Len(s)])

\* array.filter(Test).length
CountIf(s, Test(_)) == Cardinality({i \in 1..Len(s) : Test(s[i])})

\* Array.prototype.reverse
Reverse(s) == [i \in 1..Len(s) |-> s[Len(s) + 1 - i]]

Loc(la, ln) == [lat |-> la, lng |-> ln]

\* Square metres per square coordinate unit, times 10:
\* (R * pi/180 * 0.0001 deg)^2 with R = 6371 km is 123.6 m^2.
SqMetresPerSqUnitX10 ==
  (((EARTH_RADIUS_KM * EARTH_RADIUS_KM) \div 1000) * 30462) \div 1000000

\* Great-circle distance in metres.
haversineDistance(loc1, loc2) ==
  LET dLat == loc2.lat - loc1.lat
      dLng == loc2.lng - loc1.lng
  IN  ISqrt((SqMetresPerSqUnitX10 * (dLat * dLat + dLng * dLng)) \div 10)

\* The same distance in kilometres, as the scoring code reads it.
haversineKm(loc1, loc2) == Fin(haversineDistance(loc1, loc2), 1000)

(***************************************************************************)
(* State                                                                   *)
(***************************************************************************)
VARIABLES
  \* astarPathfinding: arguments
  start, goal, waypoints,
  \* astarPathfinding: locals
  apc,            \* "for" | "while" | "done"
  seg,            \* the for loop's i, counted from 1
  nodes,          \* every PathNode created in the current segment
  openSet,        \* node ids
  closedSet,      \* node ids
  path,
  totalDistance,
  iter,           \* iterations of the while loop in the current segment
  segLog,         \* what each segment pushed onto path
  astarResult,
  \* hybridRecommendation: arguments
  rides, userProfile, userLocation, destination, allUsers,
  currentHour,    \* new Date().getHours() during the call
  \* hybridRecommendation: locals
  rpc,            \* "filter" | "score" | "sort" | "done"
  filteredRides,
  scoredRides,
  recResult,
  \* updateUserProfile: the objects of a chain of calls
  prefObjs,       \* the preferences objects, by reference
  profiles,       \* profiles[1] is given; profiles[k+1] is returned by call k
  callLog,        \* the arguments of each call
  \* getShortestRoute: arguments
  routeStart, routeEnd,
  \* getShortestRoute: the call and what the routing provider answered
  rtpc,           \* "idle" | "getShortestRoute" | "getOptimalRoute" | "settled"
  altResponse,    \* the answer to the request with alternatives=true
  retryResponse,  \* the answer to the request of getOptimalRoute
  routePromise,   \* the promise getShortestRoute returned
  \* rideService: the call made and its arguments (userLocation and destination
  \* are the ones above: the service hands them on unchanged)
  svcEntry,       \* "getRecommendedRides" | "findMatchingRides" | "none"
  userId,
  maxDistanceKm,
  \* rideService: locals and the store
  svpc,           \* the await the call is at, or "settled"
  storeRequests,  \* the requests sent to the store, in order
  availableRides, \* getRecommendedRides: const availableRides
  caught,         \* getRecommendedRides: the catch block was entered
  requestsAtCatch,    \* Len(storeRequests) when it was entered
  peerIds,        \* getAllUserProfiles: const users
  peersFailed,    \* getAllUserProfiles: no peer profile came from the store
  matchAvailableRides,    \* findMatchingRides: const availableRides
  ridesWithinPickupRange,
  matchedRides,   \* what findMatchingRides returned
  svcPromise,     \* the promise the call returned
  \* calculatePrice: arguments, position and the number returned
  fareDistanceKm, fareVehicleType,
  ppc,            \* "idle" | "call" | "done"
  fare,
  \* acceptRide, updateRideStatus: the rides table and the calls of each user
  rideTable,      \* ride id -> row
  clientCalls,    \* user -> the call the user has under way
  settledCalls,   \* the calls that returned or threw, in order
  callsMade,
  \* SearchRideForm: the pickup field, its two debounced functions and the
  \* timers and requests they have under way
  clock,                  \* the time, in milliseconds
  timers,                 \* the timers set by setTimeout and not yet run or cleared
  timerCount,             \* the number of timers set so far
  timeout,                \* debounced function -> its closure's variable timeout
  invocations,            \* the invocations of the debounced functions, in order
  executions,             \* the executions of func by the timers, in order
  pickupAddress,
  pickupLat,
  pickupLng,
  pickupSuggestions,
  showPickupSuggestions,
  geocodingPickup,
  detectingLocation,
  suggestionRequests,     \* the searchLocationSuggestions calls awaited
  geocodeRequests,        \* the geocodeAddress calls awaited
  locationRequests,       \* the getCurrentLocation calls awaited
  selectedSuggestion

astarVars == << start, goal, waypoints, apc, seg, nodes, openSet, closedSet,
                path, totalDistance, iter, segLog, astarResult >>

recVars == << rides, userProfile, userLocation, destination, allUsers,
              currentHour, rpc, filteredRides, scoredRides, recResult >>

learnVars == << prefObjs, profiles, callLog >>

routeVars == << routeStart, routeEnd, rtpc, altResponse, retryResponse,
               routePromise >>

serviceVars == << svcEntry, userId, maxDistanceKm, svpc, storeRequests,
                 availableRides, caught, requestsAtCatch, peerIds, peersFailed,
                 matchAvailableRides, ridesWithinPickupRange, matchedRides,
                 svcPromise >>

priceVars == << fareDistanceKm, fareVehicleType, ppc, fare >>

tableVars == << rideTable, clientCalls, settledCalls, callsMade >>

formVars == << clock, timers, timerCount, timeout, invocations, executions,
              pickupAddress, pickupLat, pickupLng, pickupSuggestions,
              showPickupSuggestions, geocodingPickup, detectingLocation,
              suggestionRequests, geocodeRequests, locationRequests,
              selectedSuggestion >>

vars == << astarVars, recVars, learnVars, routeVars, serviceVars, priceVars, tableVars,
          formVars >>

\* What a call of one function leaves alone.
outsideAstar == << recVars, learnVars, routeVars, serviceVars, priceVars, tableVars, formVars >>
outsideRec == << astarVars, learnVars, routeVars, serviceVars, priceVars, tableVars, formVars >>
outsideLearner == << astarVars, recVars, routeVars, serviceVars, priceVars, tableVars, formVars >>
outsideRoute == << astarVars, recVars, learnVars, serviceVars, priceVars, tableVars, formVars >>
outsideService == << learnVars, routeVars, priceVars, tableVars, formVars >>
outsidePrice == << astarVars, recVars, learnVars, routeVars, serviceVars, tableVars, formVars >>
outsideTable == << astarVars, recVars, learnVars, routeVars, serviceVars, priceVars, formVars >>
outsideForm == << astarVars, recVars, learnVars, routeVars, serviceVars, priceVars, tableVars >>

(***************************************************************************)
(* astarPathfinding                                                        *)
(***************************************************************************)
NoResult == [path |-> <<>>, totalDistance |-> -1]

allPoints == <<start>> \o waypoints \o <<goal>>

segmentStart == allPoints[seg]
segmentEnd == allPoints[seg + 1]

SameLocation(a, b) ==
  /\ Abs(a.lat - b.lat) < Tolerance
  /\ Abs(a.lng - b.lng) < Tolerance

generateNeighbors(current, g) ==
  LET directionLat == IF g.lat > current.lat THEN 1 ELSE -1
      directionLng == IF g.lng > current.lng THEN 1 ELSE -1
  IN  << Loc(current.lat + Step * directionLat, current.lng),
         Loc(current.lat, current.lng + Step * directionLng),
         Loc(current.lat + Step * directionLat, current.lng + Step * directionLng) >>

\* openSet.sort((a, b) => a.f - b.f): a stable sort. The element at index i
\* moves behind those with a smaller f and those with the same f before it.
SortByF(open, ns) ==
  LET Before(i) == {j \in 1..Len(open) :
                      \/ ns[open[j]].f < ns[open[i]].f
                      \/ ns[open[j]].f = ns[open[i]].f /\ j < i}
  IN  [p \in 1..Len(open) |->
         open[CHOOSE i \in 1..Len(open) : Cardinality(Before(i)) = p - 1]]

\* The walk that pushes the accepted node alone.
ParentWalkOneNode(id, ns) == IF id = 0 THEN <<>> ELSE <<ns[id].location>>

\* while (node) { path.push(node.location); node = node.parent; }
RECURSIVE ParentWalk(_, _)
ParentWalk(id, ns) ==
  Only({ IF node = 0 THEN <<>>
         ELSE <<ns[node].location>> \o ParentWalk(ns[node].parent, ns) :
         node \in {id} })

\* The closed set never consulted.
InClosedNever(loc, closed, ns) == FALSE

\* closedSet.some(n => same location as neighborLoc)
InClosed(loc, closed, ns) ==
  \E k \in 1..Len(closed) : SameLocation(ns[closed[k]].location, loc)

\* The open set never searched.
FindOpenNever(loc, open, ns) == 0

\* openSet.find(n => same location as neighborLoc): its index, 0 when absent
FindOpen(loc, open, ns) ==
  LET hits == {k \in 1..Len(open) : SameLocation(ns[open[k]].location, loc)}
  IN  IF hits = {} THEN 0 ELSE CHOOSE k \in hits : \A j \in hits : k <= j

\* The body of "for (const neighborLoc of neighbors)" for one neighbour.
\* st = [nodes, open]; cur is the id of current.
VisitNeighborFrom(st, cur, neighborLoc, closed, segEnd) ==
  IF InClosed(neighborLoc, closed, st.nodes) THEN st
  ELSE
    LET gScore == st.nodes[cur].g
                    + haversineDistance(st.nodes[cur].location, neighborLoc)
        hScore == haversineDistance(neighborLoc, segEnd)
        existing == FindOpen(neighborLoc, st.open, st.nodes)
    IN  IF existing # 0 /\ gScore >= st.nodes[st.open[existing]].g THEN st
        ELSE
          LET neighborNode == [location |-> neighborLoc, g |-> gScore,
                               h |-> hScore, f |-> gScore + hScore,
                               parent |-> cur]
              ns2 == Append(st.nodes, neighborNode)
              id == Len(ns2)
          IN  [nodes |-> ns2,
               open |-> IF existing # 0
                        THEN [st.open EXCEPT ![existing] = id]
                        ELSE Append(st.open, id)]

VisitNeighbor(st, cur, neighborLoc, closed, segEnd) ==
  Only({ VisitNeighborFrom(s, c, n, cl, e) :
         s \in {st}, c \in {cur}, n \in {neighborLoc}, cl \in {closed},
         e \in {segEnd} })

RECURSIVE VisitNeighbors(_, _, _, _, _)
VisitNeighbors(st, cur, neighbors, closed, segEnd) ==
  IF neighbors = <<>> THEN st
  ELSE VisitNeighbors(VisitNeighbor(st, cur, Head(neighbors), closed, segEnd),
                      cur, Tail(neighbors), closed, segEnd)

\* openSet.sort(...); const current = openSet.shift()
SortedOpen == SortByF(openSet, nodes)
Current == Head(SortedOpen)

AtGoal(id) == haversineDistance(nodes[id].location, segmentEnd) < GoalRadius

\* The state of nodes and openSet after the neighbour loop of this iteration.
Expanded ==
  Only({ VisitNeighbors([nodes |-> nodes, open |-> Tail(sorted)], Head(sorted),
                        generateNeighbors(nodes[Head(sorted)].location, segmentEnd),
                        Append(closedSet, Head(sorted)), segmentEnd) :
         sorted \in {SortedOpen} })

\* for (let i = 0; i < allPoints.length - 1; i++) { ...; openSet.push(startNode);
BeginSegment ==
  /\ apc = "for"
  /\ seg < Len(allPoints)
  /\ LET h0 == haversineDistance(segmentStart, segmentEnd)
     IN  nodes' = << [location |-> segmentStart, g |-> 0, h |-> h0,
                      f |-> 0 + h0, parent |-> 0] >>
  /\ openSet' = <<1>>
  /\ closedSet' = <<>>
  /\ iter' = 0
  /\ apc' = "while"
  /\ UNCHANGED << start, goal, waypoints, seg, path, totalDistance, segLog,
                  astarResult >>
  /\ UNCHANGED outsideAstar

\* One iteration of the while loop that pops a node within 0.1 km of the
\* segment end: walk the parents, add g, break.
AcceptNode ==
  /\ apc = "while"
  /\ openSet # <<>>
  /\ iter < MaxIter
  /\ \E sorted \in {SortedOpen} : \E current \in {Head(sorted)} :
       /\ AtGoal(current)
       /\ path' = path \o ParentWalk(current, nodes)
       /\ totalDistance' = totalDistance + nodes[current].g
       /\ openSet' = Tail(sorted)
       /\ segLog' = Append(segLog, [kind |-> "accepted", node |-> current,
                                    pushed |-> ParentWalk(current, nodes)])
  /\ iter' = iter + 1
  /\ seg' = seg + 1
  /\ apc' = "for"
  /\ UNCHANGED << start, goal, waypoints, nodes, closedSet, astarResult >>
  /\ UNCHANGED outsideAstar

\* One iteration that expands the popped node and leaves the open set
\* non-empty.
ExpandNode ==
  /\ apc = "while"
  /\ openSet # <<>>
  /\ iter < MaxIter
  /\ \E current \in {Current} : \E expanded \in {Expanded} :
       /\ ~AtGoal(current)
       /\ expanded.open # <<>>
       /\ closedSet' = Append(closedSet, current)
       /\ nodes' = expanded.nodes
       /\ openSet' = expanded.open
  /\ iter' = iter + 1
  /\ UNCHANGED << start, goal, waypoints, apc, seg, path, totalDistance,
                  segLog, astarResult >>
  /\ UNCHANGED outsideAstar

\* One iteration that expands the popped node and leaves the open set
\* empty: push segmentStart, segmentEnd, add their distance, break.
ExpandToFallback ==
  /\ apc = "while"
  /\ openSet # <<>>
  /\ iter < MaxIter
  /\ \E current \in {Current} : \E expanded \in {Expanded} :
       /\ ~AtGoal(current)
       /\ expanded.open = <<>>
       /\ closedSet' = Append(closedSet, current)
       /\ nodes' = expanded.nodes
       /\ openSet' = expanded.open
  /\ path' = path \o <<segmentStart, segmentEnd>>
  /\ totalDistance' = totalDistance + haversineDistance(segmentStart, segmentEnd)
  /\ segLog' = Append(segLog, [kind |-> "fallback", node |-> 0,
                               pushed |-> <<segmentStart, segmentEnd>>])
  /\ iter' = iter + 1
  /\ seg' = seg + 1
  /\ apc' = "for"
  /\ UNCHANGED << start, goal, waypoints, astarResult >>
  /\ UNCHANGED outsideAstar

\* return { path: path.reverse(), totalDistance }
AstarReturn ==
  /\ apc = "for"
  /\ seg >= Len(allPoints)
  /\ astarResult' = [path |-> Reverse(path), totalDistance |-> totalDistance]
  /\ apc' = "done"
  /\ UNCHANGED << start, goal, waypoints, seg, nodes, openSet, closedSet,
                  path, totalDistance, iter, segLog >>
  /\ UNCHANGED outsideAstar

(***************************************************************************)
(* The recommendation pipeline                                             *)
(***************************************************************************)
getTimeOfDay(hour) ==
  IF hour >= 5 /\ hour < 12 THEN "morning"
  ELSE IF hour >= 12 /\ hour < 17 THEN "afternoon"
  ELSE IF hour >= 17 /\ hour < 22 THEN "evening"
  ELSE "night"

PickupOf(ride) == Loc(ride.pickup_lat, ride.pickup_lng)
DropoffOf(ride) == Loc(ride.dropoff_lat, ride.dropoff_lng)

\* array.includes(x)
Includes(s, x) == \E i \in 1..Len(s) : s[i] = x

\* array.map(F)
MapSeq(s, F(_)) == [i \in 1..Len(s) |-> F(s[i])]

\* The five rules with a ride priced at maxPrice rejected as well.
keepsRideBelowMaxPrice(ride, profile, userLoc) ==
  /\ FLt(ride.price, profile.preferences.maxPrice)
  /\ ~FLt(ride.driver.rating, profile.preferences.preferredDriverRatings)
  /\ ~(/\ Len(profile.preferences.preferredVehicleTypes) > 0
       /\ ~Includes(profile.preferences.preferredVehicleTypes, ride.vehicle_type))
  /\ ~(profile.preferences.smokingPreference
         # ride.driver.preferences.smokingAllowed)
  /\ ~FGt(haversineKm(userLoc, PickupOf(ride)), N(5))

\* The callback of rides.filter in deductiveFiltering: the five rules.
keepsRide(ride, profile, userLoc) ==
  /\ ~FGt(ride.price, profile.preferences.maxPrice)
  /\ ~FLt(ride.driver.rating, profile.preferences.preferredDriverRatings)
  /\ ~(/\ Len(profile.preferences.preferredVehicleTypes) > 0
       /\ ~Includes(profile.preferences.preferredVehicleTypes, ride.vehicle_type))
  /\ ~(profile.preferences.smokingPreference
         # ride.driver.preferences.smokingAllowed)
  /\ ~FGt(haversineKm(userLoc, PickupOf(ride)), N(5))

\* The filter callback throws a TypeError: the ride is not rejected by rules
\* 1 to 3 and rule 4 reads ride.driver.preferences.smokingAllowed of a
\* driver that has no preferences.
callbackThrows(ride, profile) ==
  /\ ~FGt(ride.price, profile.preferences.maxPrice)
  /\ ~FLt(ride.driver.rating, profile.preferences.preferredDriverRatings)
  /\ ~(/\ Len(profile.preferences.preferredVehicleTypes) > 0
       /\ ~Includes(profile.preferences.preferredVehicleTypes, ride.vehicle_type))
  /\ "preferences" \notin DOMAIN ride.driver

\* rides.filter(...) throws when the callback throws for one of the rides
filterThrows(rs, profile) ==
  \E i \in 1..Len(rs) : callbackThrows(rs[i], profile)

deductiveFiltering(rs, profile, userLoc, dest) ==
  SelectSeq(rs, LAMBDA ride : keepsRide(ride, profile, userLoc))

calculateRouteSimilarity(pickup, dropoff, history) ==
  IF Len(history) = 0 THEN N(0)
  ELSE
    LET similarRoutes ==
          SelectSeq(history, LAMBDA r :
            /\ FLt(haversineKm(pickup, r.pickup), N(1))
            /\ FLt(haversineKm(dropoff, r.dropoff), N(1)))
        avgRating ==
          OrZero(FDiv(SumNum(MapSeq(similarRoutes, LAMBDA r : r.rating)),
                      N(Len(similarRoutes))))
    IN  FMul(FDiv(N(Len(similarRoutes)), N(Len(history))),
             FDiv(avgRating, N(5)))

calculateTimePreference(hour, vehicleType, history) ==
  LET timeOfDay == getTimeOfDay(hour)
      relevantRides ==
        SelectSeq(history, LAMBDA h :
          h.timeOfDay = timeOfDay /\ h.vehicleType = vehicleType)
  IN  IF Len(relevantRides) = 0 THEN Fin(1, 2)
      ELSE FDiv(FDiv(SumNum(MapSeq(relevantRides, LAMBDA r : r.rating)),
                     N(Len(relevantRides))),
                N(5))

inferPriceSensitivity(price, history) ==
  IF Len(history) = 0 THEN Fin(1, 2)
  ELSE
    LET avgPrice == FDiv(SumNum(MapSeq(history, LAMBDA h : h.price)),
                         N(Len(history)))
        priceDiff == FDiv(FAbs(FSub(price, avgPrice)), avgPrice)
    IN  FMax(N(0), FSub(N(1), priceDiff))

\* Driver compatibility on the scale 0..1 of the other four patterns.
predictDriverCompatibilityUnit(driver, profile) ==
  LET ratingPart == FMul(FDiv(driver.rating, N(5)), N(40))
      experienceScore ==
        FMul(FMin(N(1), FDiv(driver.totalRides, N(100))), N(30))
      alignment ==
        IF driver.preferences.conversationLevel
             = profile.preferences.conversationPreference
        THEN N(30) ELSE N(15)
  IN  FDiv(FAdd(FAdd(ratingPart, experienceScore), alignment), N(100))

predictDriverCompatibility(driver, profile) ==
  LET ratingPart == FMul(FDiv(driver.rating, N(5)), N(40))
      experienceScore ==
        FMul(FMin(N(1), FDiv(driver.totalRides, N(100))), N(30))
      alignment ==
        IF driver.preferences.conversationLevel
             = profile.preferences.conversationPreference
        THEN N(30) ELSE N(15)
  IN  FAdd(FAdd(ratingPart, experienceScore), alignment)

calculateProximityPreference(currentLocation, pickupLocation, history) ==
  LET distance == haversineKm(currentLocation, pickupLocation)
  IN  IF Len(history) = 0
      THEN FMax(N(0), FSub(N(1), FDiv(distance, N(5))))
      ELSE
        LET avgPickupDistance ==
              FDiv(SumNum(MapSeq(history, LAMBDA h :
                            haversineKm(h.pickup, currentLocation))),
                   N(Len(history)))
            similarityToHistory ==
              FSub(N(1), FDiv(FAbs(FSub(distance, avgPickupDistance)), N(5)))
        IN  FMax(N(0), similarityToHistory)

\* hour is what new Date().getHours() returns during the call.
inductiveScoring(ride, profile, userLoc, dest, hour) ==
  LET s1 == FMul(calculateRouteSimilarity(PickupOf(ride), DropoffOf(ride),
                                          profile.rideHistory), N(30))
      s2 == FAdd(s1, FMul(calculateTimePreference(hour, ride.vehicle_type,
                                                  profile.rideHistory), N(20)))
      s3 == FAdd(s2, FMul(inferPriceSensitivity(ride.price,
                                                profile.rideHistory), N(15)))
      s4 == FAdd(s3, FMul(predictDriverCompatibility(ride.driver, profile),
                          N(25)))
      s5 == FAdd(s4, FMul(calculateProximityPreference(userLoc, PickupOf(ride),
                                                       profile.rideHistory),
                          N(10)))
  IN  FMin(N(100), FMax(N(0), s5))

calculateUserSimilarity(user1, user2) ==
  LET p1 == user1.preferences
      p2 == user2.preferences
      commonVehicles ==
        CountIf(p1.preferredVehicleTypes,
                LAMBDA v : Includes(p2.preferredVehicleTypes, v))
      n1 == Len(p1.preferredVehicleTypes)
      vehiclePart ==
        FMul(FDiv(N(commonVehicles), N(IF n1 > 1 THEN n1 ELSE 1)), Fin(3, 10))
      priceDiff == FAbs(FSub(p1.maxPrice, p2.maxPrice))
      pricePart ==
        FMul(FMax(N(0), FSub(N(1), FDiv(priceDiff, p1.maxPrice))), Fin(3, 10))
      smokingPart ==
        IF p1.smokingPreference = p2.smokingPreference THEN Fin(1, 5) ELSE N(0)
      conversationPart ==
        IF p1.conversationPreference = p2.conversationPreference
        THEN Fin(1, 5) ELSE N(0)
  IN  FAdd(FAdd(FAdd(vehiclePart, pricePart), smokingPart), conversationPart)

\* array.sort((a, b) => b.key - a.key) for a comparator that is consistent
\* on the array: the stable sort, descending by key.  x passes y only when
\* the comparator puts it first, x.key - y.key > 0.
RECURSIVE InsertDesc(_, _)
InsertDesc(sorted, x) ==
  IF sorted = <<>> THEN <<x>>
  ELSE LET y == sorted[Len(sorted)]
       IN  IF FGt(FSub(x.key, y.key), N(0))
           THEN Append(InsertDesc(SubSeq(sorted, 1, Len(sorted) - 1), x), y)
           ELSE Append(sorted, x)

RECURSIVE SortDesc(_)
SortDesc(s) ==
  IF s = <<>> THEN <<>>
  ELSE InsertDesc(SortDesc(SubSeq(s, 1, Len(s) - 1)), s[Len(s)])

\* slice(0, 10)
TopSimilar == 10

\* The similar users with similarity 0.5 counted among them.
findSimilarUsersFromHalf(profile, users) ==
  LET others == SelectSeq(users, LAMBDA u :
                  u.id # profile.id /\ Len(u.rideHistory) > 0)
      scored == MapSeq(others, LAMBDA u :
                  [user |-> u, similarity |-> calculateUserSimilarity(profile, u)])
      similar == SelectSeq(scored, LAMBDA e : FGe(e.similarity, Fin(1, 2)))
      sorted == SortDesc(MapSeq(similar, LAMBDA e :
                  [item |-> e, key |-> e.similarity]))
      n == IF Len(sorted) < TopSimilar THEN Len(sorted) ELSE TopSimilar
  IN  MapSeq(SubSeq(sorted, 1, n), LAMBDA e : e.item)

\* The similar users in the order given, the first 10 of them.
findSimilarUsersUnsorted(profile, users) ==
  LET others == SelectSeq(users, LAMBDA u :
                  u.id # profile.id /\ Len(u.rideHistory) > 0)
      scored == MapSeq(others, LAMBDA u :
                  [user |-> u, similarity |-> calculateUserSimilarity(profile, u)])
      similar == SelectSeq(scored, LAMBDA e : FGt(e.similarity, Fin(1, 2)))
      n == IF Len(similar) < TopSimilar THEN Len(similar) ELSE TopSimilar
  IN  SubSeq(similar, 1, n)

findSimilarUsers(profile, users) ==
  LET others == SelectSeq(users, LAMBDA u :
                  u.id # profile.id /\ Len(u.rideHistory) > 0)
      scored == MapSeq(others, LAMBDA u :
                  [user |-> u, similarity |-> calculateUserSimilarity(profile, u)])
      similar == SelectSeq(scored, LAMBDA e : FGt(e.similarity, Fin(1, 2)))
      sorted == SortDesc(MapSeq(similar, LAMBDA e :
                  [item |-> e, key |-> e.similarity]))
      n == IF Len(sorted) < TopSimilar THEN Len(sorted) ELSE TopSimilar
  IN  MapSeq(SubSeq(sorted, 1, n), LAMBDA e : e.item)

\* The forEach callback of collaborativeFiltering for one similar user.
likeScore(ride, user) ==
  LET userLikedSimilarRides ==
        CountIf(user.rideHistory, LAMBDA history :
          /\ history.vehicleType = ride.vehicle_type
          /\ FGe(history.rating, N(4))
          /\ FLt(FAbs(FSub(history.price, ride.price)),
                 FMul(ride.price, Fin(1, 5))))
  IN  FMul(FDiv(N(userLikedSimilarRides), N(Len(user.rideHistory))), N(100))

collaborativeFiltering(ride, profile, users) ==
  LET similarUsers == findSimilarUsers(profile, users)
  IN  IF Len(similarUsers) = 0 THEN N(50)
      ELSE
        LET totalScore ==
              SumNum(MapSeq(similarUsers, LAMBDA e :
                       FMul(likeScore(ride, e.user), e.similarity)))
            weightSum == SumNum(MapSeq(similarUsers, LAMBDA e : e.similarity))
        IN  IF FGt(weightSum, N(0)) THEN FDiv(totalScore, weightSum) ELSE N(50)

contentBasedFiltering(ride, profile) ==
  IF Len(profile.rideHistory) = 0 THEN N(50)
  ELSE
    LET history == profile.rideHistory
        len == N(Len(history))
        vehicleTypeMatches ==
          CountIf(history, LAMBDA h :
            h.vehicleType = ride.vehicle_type /\ FGe(h.rating, N(4)))
        s1 == FMul(FMul(FDiv(N(vehicleTypeMatches), len), N(100)), Fin(3, 10))
        avgPrice == FDiv(SumNum(MapSeq(history, LAMBDA h : h.price)), len)
        priceDiff == FDiv(FAbs(FSub(ride.price, avgPrice)), avgPrice)
        s2 == FAdd(s1, FMul(FMax(N(0), FMul(FSub(N(1), priceDiff), N(100))),
                            Fin(1, 4)))
        avgDistance ==
          FDiv(SumNum(MapSeq(history, LAMBDA h :
                        haversineKm(h.pickup, h.dropoff))), len)
        distDiff == FDiv(FAbs(FSub(ride.distance_km, avgDistance)), avgDistance)
        s3 == FAdd(s2, FMul(FMax(N(0), FMul(FSub(N(1), distDiff), N(100))),
                            Fin(1, 5)))
        avgPreferredRating ==
          FDiv(SumNum(profile.ratings), N(Len(profile.ratings)))
        ratingAlignment ==
          FMul(FDiv(ride.driver.rating, avgPreferredRating), N(100))
        s4 == FAdd(s3, FMul(FMin(N(100), ratingAlignment), Fin(1, 4)))
    IN  FMin(N(100), s4)

\* const finalScore = inductiveScore * 0.4 + contentScore * 0.35
\*                    + collaborativeScore * 0.25
combineScores(inductiveScore, contentScore, collaborativeScore) ==
  FAdd(FAdd(FMul(inductiveScore, Fin(2, 5)), FMul(contentScore, Fin(7, 20))),
       FMul(collaborativeScore, Fin(1, 4)))

\* if (finalScore >= 80) ... else if (finalScore >= 60) ... else ...
matchLabel(finalScore) ==
  IF FGe(finalScore, N(80)) THEN "Highly Recommended"
  ELSE IF FGe(finalScore, N(60)) THEN "Good Match"
  ELSE "Average Match"

\* return {...ride, recommendationScore: finalScore, reasoning}.  The result
\* keeps the ride and the three stage scores beside recommendationScore;
\* reasoning keeps each entry's label, not its formatted number.
scoredResult(ride, useCollaborative, inductive, content, collaborative) ==
  LET inductiveScore == inductive
      contentScore == content
      collaborativeScore == collaborative
      finalScore ==
        combineScores(inductiveScore, contentScore, collaborativeScore)
  IN  [ride |-> ride,
       inductiveScore |-> inductiveScore,
       contentScore |-> contentScore,
       collaborativeScore |-> collaborativeScore,
       recommendationScore |-> finalScore,
       reasoning |-> <<"Pattern Analysis", "Personal History Match">>
                     \o (IF useCollaborative
                         THEN <<"Similar Users Preference">> ELSE <<>>)
                     \o <<matchLabel(finalScore)>>]

\* The callback of filteredRides.map in hybridRecommendation.
scoreRide(ride, profile, userLoc, dest, users, hour) ==
  scoredResult(ride, Len(users) > 0,
               inductiveScoring(ride, profile, userLoc, dest, hour),
               contentBasedFiltering(ride, profile),
               IF Len(users) > 0
               THEN collaborativeFiltering(ride, profile, users)
               ELSE N(50))

\* b.recommendationScore - a.recommendationScore is a consistent comparator
\* on s unless it is NaN for some pair and not 0 for another.
ConsistentComparator(s) ==
  \/ \A i \in 1..Len(s) : ~IsNaN(s[i].recommendationScore)
  \/ \A i, j \in 1..Len(s) :
       IsNaN(FSub(s[j].recommendationScore, s[i].recommendationScore))
       \/ s[i].recommendationScore = s[j].recommendationScore

SortByScore(s) ==
  MapSeq(SortDesc(MapSeq(s, LAMBDA e :
           [item |-> e, key |-> e.recommendationScore])),
         LAMBDA e : e.item)

Reorderings(s) ==
  { [i \in 1..Len(s) |-> s[p[i]]] :
      p \in { q \in [1..Len(s) -> 1..Len(s)] :
                \A i, j \in 1..Len(s) : q[i] = q[j] => i = j } }

\* STEP 1: const filteredRides = deductiveFiltering(...)
RecFilter ==
  /\ rpc = "filter"
  /\ ~filterThrows(rides, userProfile)
  /\ filteredRides' = deductiveFiltering(rides, userProfile, userLocation,
                                         destination)
  /\ rpc' = "score"
  /\ UNCHANGED << rides, userProfile, userLocation, destination, allUsers,
                  currentHour, scoredRides, recResult >>
  /\ UNCHANGED outsideRec

\* STEP 2: const scoredRides = filteredRides.map(...)
RecScore ==
  /\ rpc = "score"
  /\ scoredRides' = MapSeq(filteredRides, LAMBDA ride :
       scoreRide(ride, userProfile, userLocation, destination, allUsers,
                 currentHour))
  /\ rpc' = "sort"
  /\ UNCHANGED << rides, userProfile, userLocation, destination, allUsers,
                  currentHour, filteredRides, recResult >>
  /\ UNCHANGED outsideRec

\* return scoredRides.sort(...), the comparator consistent on the array
RecSort ==
  /\ rpc = "sort"
  /\ ConsistentComparator(scoredRides) = TRUE
  /\ recResult' = SortByScore(scoredRides)
  /\ scoredRides' = recResult'
  /\ rpc' = "done"
  /\ UNCHANGED << rides, userProfile, userLocation, destination, allUsers,
                  currentHour, filteredRides >>
  /\ UNCHANGED outsideRec

\* return scoredRides.sort(...), the comparator not consistent on the array
\* (NaN for some pairs only): the order is implementation-defined.
RecSortInconsistent ==
  /\ rpc = "sort"
  /\ ~ConsistentComparator(scoredRides)
  /\ recResult' \in Reorderings(scoredRides)
  /\ scoredRides' = recResult'
  /\ rpc' = "done"
  /\ UNCHANGED << rides, userProfile, userLocation, destination, allUsers,
                  currentHour, filteredRides >>
  /\ UNCHANGED outsideRec

(***************************************************************************)
(* The profile learner                                                     *)
(***************************************************************************)
\* The profile an object denotes: its preferences read through the reference.
Deep(obj) == [obj EXCEPT !.preferences = prefObjs[obj.preferences]]

\* const newHistory: RideHistory = {...}
newHistoryEntry(ride, rating, now) ==
  [pickup |-> PickupOf(ride),
   dropoff |-> DropoffOf(ride),
   timestamp |-> now,
   price |-> ride.price,
   vehicleType |-> ride.vehicle_type,
   rating |-> rating,
   timeOfDay |-> getTimeOfDay(now.hour),
   dayOfWeek |-> now.day]

\* The preference update that pushes without looking for the class.
learnedPreferencesAlwaysPush(prefs, ride, rating, accepted) ==
  IF accepted /\ FGe(rating, N(4))
  THEN [prefs EXCEPT !.preferredVehicleTypes = Append(@, ride.vehicle_type)]
  ELSE prefs

\* if (accepted && rating >= 4) { if (!includes) push }: the preferences
\* object after the call
learnedPreferences(prefs, ride, rating, accepted) ==
  IF /\ accepted
     /\ FGe(rating, N(4))
     /\ ~Includes(prefs.preferredVehicleTypes, ride.vehicle_type)
  THEN [prefs EXCEPT !.preferredVehicleTypes = Append(@, ride.vehicle_type)]
  ELSE prefs

\* The returned profile with the new entry and rating put first.
returnedProfileNewestFirst(obj, ride, rating, now) ==
  [obj EXCEPT !.rideHistory = <<newHistoryEntry(ride, rating, now)>> \o @,
              !.ratings = <<rating>> \o @]

\* return {...userProfile, rideHistory: [...], ratings: [...]}: a new object
\* that shares the preferences object of the given one
returnedProfile(obj, ride, rating, now) ==
  [obj EXCEPT !.rideHistory = Append(@, newHistoryEntry(ride, rating, now)),
              !.ratings = Append(@, rating)]

\* updateUserProfile(profiles[last], ride, rating, accepted) at time now
UpdateUserProfile(ride, rating, accepted, now) ==
  LET obj == profiles[Len(profiles)]
  IN  /\ Len(callLog) < MaxCalls
      /\ prefObjs' = [prefObjs EXCEPT ![obj.preferences] =
                        learnedPreferences(@, ride, rating, accepted)]
      /\ profiles' = Append(profiles, returnedProfile(obj, ride, rating, now))
      /\ callLog' = Append(callLog, [ride |-> ride, rating |-> rating,
                                     accepted |-> accepted, now |-> now])
      /\ UNCHANGED outsideLearner

(***************************************************************************)
(* Routing: getShortestRoute, getOptimalRoute, getFallbackRoute            *)
(***************************************************************************)
\* Math.ceil(a / b) for a >= 0, b > 0
CeilDiv(a, b) == (a + b - 1) \div b

\* The settlement of a promise, and the completion of a try block.
Pending == [state |-> "pending"]
Fulfilled(v) == [state |-> "fulfilled", value |-> v]
Rejected == [state |-> "rejected"]
Returned(v) == [threw |-> FALSE, handsOver |-> FALSE, value |-> v]
Threw == [threw |-> TRUE, handsOver |-> FALSE, value |-> <<>>]
\* return getOptimalRoute(start, end)
HandsOver == [threw |-> FALSE, handsOver |-> TRUE, value |-> <<>>]

\* A response of the routing provider: fetch rejects ("networkError"),
\* response.ok is false ("httpError"), response.json() rejects ("badJson"),
\* or the body is read ("ok"), routes being empty when it has none.
Response(kind, routes) == [kind |-> kind, routes |-> routes]

\* coordinates.map(coord => ({lng: coord[0], lat: coord[1]}))
pathOf(coordinates) ==
  [i \in 1..Len(coordinates) |->
     [lat |-> coordinates[i][2], lng |-> coordinates[i][1]]]

\* legs[0].steps.forEach(step => { if (maneuver.instruction) push })
instructionsOf(route) ==
  IF Len(route.legs) > 0
  THEN SelectSeq(route.legs[1], LAMBDA instruction : instruction # "")
  ELSE <<>>

\* const coordinates = route.geometry.coordinates; ...; return {...}: reading
\* the geometry of a route that has none throws.
routeResultOf(route) ==
  IF ~route.hasGeometry THEN Threw
  ELSE Returned([path |-> pathOf(route.coordinates),
                 totalDistance |-> Fin(route.distance, 1000),
                 duration |-> CeilDiv(route.duration, 60),
                 instructions |-> instructionsOf(route)])

\* The 20 interpolated waypoints, on the coordinate grid.
interpolated(from, to, i, steps) ==
  Loc(from.lat + ((to.lat - from.lat) * i) \div (steps + 1),
      from.lng + ((to.lng - from.lng) * i) \div (steps + 1))

getFallbackRoute(from, to) ==
  LET steps == 20
      metres == haversineDistance(from, to)
  IN  [path |-> <<from>> \o [i \in 1..steps |-> interpolated(from, to, i, steps)]
                  \o <<to>>,
       totalDistance |-> Fin(metres, 1000),
       duration |-> CeilDiv(metres * 60, 40 * 1000)]

\* The catch block of getOptimalRoute rethrowing instead of falling back.
optimalCatchRethrows(from, to) == Rejected

\* catch (error) { return getFallbackRoute(start, end); }
optimalCatch(from, to) == Fulfilled(getFallbackRoute(from, to))

\* The try block of getOptimalRoute for one answer of the provider.
optimalTry(from, to, response) ==
  IF response.kind = "networkError" THEN Threw
  ELSE IF response.kind = "httpError" THEN Threw
  ELSE IF response.kind = "badJson" THEN Threw
  ELSE IF Len(response.routes) = 0
       THEN Returned([path |-> <<from, to>>,
                      totalDistance |-> haversineKm(from, to),
                      duration |-> 0])
       ELSE routeResultOf(response.routes[1])

getOptimalRoute(from, to, response) ==
  LET tried == optimalTry(from, to, response)
  IN  IF tried.threw THEN optimalCatch(from, to) ELSE Fulfilled(tried.value)

\* The reduce that keeps its initial value, the first route.
shortestOfKeepsFirst(routes, shortest) == shortest

\* data.routes.reduce((shortest, current) =>
\*   current.distance < shortest.distance ? current : shortest, data.routes[0])
RECURSIVE shortestOf(_, _)
shortestOf(routes, shortest) ==
  IF routes = <<>> THEN shortest
  ELSE shortestOf(Tail(routes),
                  IF Head(routes).distance < shortest.distance
                  THEN Head(routes) ELSE shortest)

\* The try block of getShortestRoute for one answer of the provider.
shortestTry(response) ==
  IF response.kind = "networkError" THEN Threw
  ELSE IF response.kind = "httpError" THEN HandsOver
  ELSE IF response.kind = "badJson" THEN Threw
  ELSE IF Len(response.routes) = 0 THEN HandsOver
  ELSE routeResultOf(shortestOf(response.routes, response.routes[1]))

\* Whether getShortestRoute goes on to getOptimalRoute: from the branches
\* that return it and from the catch block.
retries(response) ==
  LET tried == shortestTry(response)
  IN  IF tried.threw THEN TRUE ELSE tried.handsOver

NoResponse == Response("none", <<>>)

\* getShortestRoute answered from the alternatives it asked for.
ShortestResolve(response) ==
  /\ rtpc = "getShortestRoute"
  /\ retries(response) = FALSE
  /\ altResponse' = response
  /\ routePromise' = Fulfilled(shortestTry(response).value)
  /\ rtpc' = "settled"
  /\ UNCHANGED << routeStart, routeEnd, retryResponse >>
  /\ UNCHANGED outsideRoute

\* getShortestRoute handing over to getOptimalRoute, whose request is next.
ShortestRetry(response) ==
  /\ rtpc = "getShortestRoute"
  /\ retries(response) = TRUE
  /\ altResponse' = response
  /\ rtpc' = "getOptimalRoute"
  /\ UNCHANGED << routeStart, routeEnd, retryResponse, routePromise >>
  /\ UNCHANGED outsideRoute

\* getOptimalRoute settling, and with it the promise getShortestRoute returned.
OptimalSettle(response) ==
  /\ rtpc = "getOptimalRoute"
  /\ retryResponse' = response
  /\ routePromise' = getOptimalRoute(routeStart, routeEnd, response)
  /\ rtpc' = "settled"
  /\ UNCHANGED << routeStart, routeEnd, altResponse >>
  /\ UNCHANGED outsideRoute

(***************************************************************************)
(* rideService: findNearbyRides, findMatchingRides, getRecommendedRides    *)
(*                                                                         *)
(* The store is the remote database.  Every await of a store query is a    *)
(* step of its own, and what the store answers is the input of the step.   *)
(* astarPathfinding and hybridRecommendation run as the steps given above. *)
(***************************************************************************)

\* A row of the profiles table
ProfilesRow(id, rating) ==
  [id |-> id, full_name |-> "name", phone |-> "phone", rating |-> rating,
   total_rides |-> 0]

\* The ride as getAvailableRides selects it: the columns of the rides table
\* and, as driver, the profiles row of driver_id
AsSelected(ride) ==
  [ride EXCEPT !.driver = ProfilesRow(ride.driver.id, ride.driver.rating)]

\* What getAvailableRides gets from the store: { data, error }
RidesAnswer(error, data) == [error |-> error, data |-> data]

\* A row of the rides table: the ride and its created_at
StoredRide(ride, createdAt) ==
  [f \in DOMAIN ride \cup {"created_at"} |->
     IF f = "created_at" THEN createdAt ELSE ride[f]]

\* What the two queries of getUserProfile get: a query that threw, or the
\* rows of the user (null and [] alike: rides || []) and the profile row
\* (absent when hasProfile is FALSE).
NoProfileRow ==
  [preferred_vehicle_types |-> <<>>, max_price |-> N(0),
   min_driver_rating |-> N(0), smoking_preference |-> FALSE,
   music_preference |-> FALSE, conversation_preference |-> ""]
ProfileThrew ==
  [threw |-> TRUE, rides |-> <<>>, hasProfile |-> FALSE,
   profile |-> NoProfileRow]
ProfileAnswer(rows, hasProfile, profile) ==
  [threw |-> FALSE, rides |-> rows, hasProfile |-> hasProfile,
   profile |-> profile]

\* What the id query of getAllUserProfiles gets: it threw, or { data: users }
\* with users null (isNull) or a list of ids.
IdsThrew == [threw |-> TRUE, isNull |-> FALSE, users |-> <<>>]
IdsAnswer(isNull, users) == [threw |-> FALSE, isNull |-> isNull, users |-> users]

\* x || fallback for a number x
NumberOr(x, fallback) ==
  IF IsNaN(x) \/ FEq(x, N(0)) THEN fallback ELSE x

\* One entry of rideHistory, from a row of the rides table
historyEntry(row) ==
  [pickup |-> Loc(row.pickup_lat, row.pickup_lng),
   dropoff |-> Loc(row.dropoff_lat, row.dropoff_lng),
   timestamp |-> row.created_at,
   price |-> NumberOr(row.price, N(0)),
   vehicleType |-> IF row.vehicle_type = "" THEN "economy" ELSE row.vehicle_type,
   rating |-> N(4),
   timeOfDay |-> getTimeOfDay(row.created_at.hour),
   dayOfWeek |-> row.created_at.day]

\* The profile returned from the catch block
defaultProfile(id) ==
  [id |-> id, rideHistory |-> <<>>,
   preferences |->
     [preferredVehicleTypes |-> <<"economy", "comfort", "premium">>,
      maxPrice |-> N(1000), preferredDriverRatings |-> N(4),
      smokingPreference |-> FALSE, musicPreference |-> TRUE,
      conversationPreference |-> "moderate"],
   ratings |-> <<>>, frequentLocations |-> <<>>]

\* getUserProfile: it resolves for every answer of the store.  An empty
\* list of vehicle types is truthy and is kept.
getUserProfile(id, answer) ==
  IF answer.threw THEN defaultProfile(id)
  ELSE LET has == answer.hasProfile
           row == answer.profile
       IN  [id |-> id,
            rideHistory |->
              [i \in 1..Len(answer.rides) |-> historyEntry(answer.rides[i])],
            preferences |->
              [preferredVehicleTypes |->
                 IF has THEN row.preferred_vehicle_types
                 ELSE <<"economy", "comfort">>,
               maxPrice |->
                 IF has THEN NumberOr(row.max_price, N(1000)) ELSE N(1000),
               preferredDriverRatings |->
                 IF has THEN NumberOr(row.min_driver_rating, N(4)) ELSE N(4),
               smokingPreference |-> has /\ row.smoking_preference,
               musicPreference |-> TRUE,
               conversationPreference |->
                 IF has /\ row.conversation_preference # ""
                 THEN row.conversation_preference ELSE "moderate"],
            ratings |-> <<>>, frequentLocations |-> <<>>]

\* array.sort((a, b) => a.key - b.key): the stable sort, ascending by key.
\* x passes y only when the comparator puts it first, x.key - y.key < 0.
RECURSIVE InsertAsc(_, _)
InsertAsc(sorted, x) ==
  IF sorted = <<>> THEN <<x>>
  ELSE LET y == sorted[Len(sorted)]
       IN  IF FLt(FSub(x.key, y.key), N(0))
           THEN Append(InsertAsc(SubSeq(sorted, 1, Len(sorted) - 1), x), y)
           ELSE Append(sorted, x)

RECURSIVE SortAsc(_)
SortAsc(s) ==
  IF s = <<>> THEN <<>>
  ELSE InsertAsc(SortAsc(SubSeq(s, 1, Len(s) - 1)), s[Len(s)])

\* maxDistanceKm: number = 5
DefaultMaxDistanceKm == 5

\* The filter with the radius itself left out.
isNearbyStrict(item, maxKm) == FLt(item.distance, N(maxKm))

\* .filter(item => item.distance <= maxDistanceKm)
isNearby(item, maxKm) == FLe(item.distance, N(maxKm))

findNearbyRides(loc, rs, maxKm) ==
  LET items == [i \in 1..Len(rs) |->
                  [ride |-> rs[i], distance |-> haversineKm(loc, PickupOf(rs[i]))]]
      near == SelectSeq(items, LAMBDA item : isNearby(item, maxKm))
      sorted == SortAsc([i \in 1..Len(near) |->
                           [item |-> near[i], key |-> near[i].distance]])
  IN  [i \in 1..Len(sorted) |-> sorted[i].item]

\* The callback of ridesWithinPickupRange.map; estimated is the totalDistance
\* astarPathfinding(userLocation, destination) returned, in metres.
matchOf(item, dest, estimated) ==
  LET dropoffDistance == haversineKm(dest, DropoffOf(item.ride))
      routeDeviation == FAbs(FSub(Fin(estimated, 1000), item.ride.distance_km))
      matchScore ==
        FSub(N(100),
             FAdd(FAdd(FMul(item.distance, N(10)), FMul(dropoffDistance, N(5))),
                  FMul(routeDeviation, N(3))))
  IN  [ride |-> item.ride, pickupDistance |-> item.distance,
       dropoffDistance |-> dropoffDistance,
       matchScore |-> FMax(N(0), matchScore)]

\* .filter(m => m.matchScore > 30)
isGoodMatch(m) == FGt(m.matchScore, N(30))

\* The good matches in the order of ridesWithinPickupRange.
matchesOfUnsorted(within, dest, estimated) ==
  SelectSeq([i \in 1..Len(within) |-> matchOf(within[i], dest, estimated)],
            isGoodMatch)

\* matchedRides.filter(...).sort((a, b) => b.matchScore - a.matchScore)
matchesOf(within, dest, estimated) ==
  LET mapped == [i \in 1..Len(within) |-> matchOf(within[i], dest, estimated)]
      good == SelectSeq(mapped, isGoodMatch)
      sorted == SortDesc([i \in 1..Len(good) |->
                            [item |-> good[i], key |-> good[i].matchScore]])
  IN  [i \in 1..Len(sorted) |-> sorted[i].item]

\* matches.map(m => ({ ...m.ride, recommendationScore: m.matchScore, ... }))
basicRecommendation(m) ==
  [ride |-> m.ride, recommendationScore |-> m.matchScore,
   reasoning |-> << "Distance Match", "km from your location",
                    "Using basic matching" >>]

\* What the call of the service returns for what findMatchingRides returned:
\* findMatchingRides is either the call itself or awaited in the catch block
\* of getRecommendedRides.
returnedFor(entry, matches) ==
  IF entry = "findMatchingRides" THEN matches
  ELSE [i \in 1..Len(matches) |-> basicRecommendation(matches[i])]

\* getRecommendedRides: const availableRides = await getAvailableRides();
\* if (availableRides.length === 0) return [];
RecommendFetchRides(answer) ==
  /\ svcEntry = "getRecommendedRides"
  /\ svpc = "getAvailableRides"
  /\ storeRequests' = Append(storeRequests, "rides")
  /\ IF answer.error
     THEN /\ svcPromise' = Rejected
          /\ svpc' = "settled"
          /\ UNCHANGED availableRides
     ELSE IF answer.data = <<>>
     THEN /\ svcPromise' = Fulfilled(<<>>)
          /\ svpc' = "settled"
          /\ availableRides' = answer.data
     ELSE /\ svpc' = "getUserProfile"
          /\ availableRides' = answer.data
          /\ UNCHANGED svcPromise
  /\ UNCHANGED << svcEntry, userId, maxDistanceKm, caught, requestsAtCatch,
                  peerIds, peersFailed, matchAvailableRides,
                  ridesWithinPickupRange, matchedRides >>
  /\ UNCHANGED << astarVars, recVars >>
  /\ UNCHANGED outsideService

\* const userProfile = await getUserProfile(userId);
RecommendFetchProfile(answer) ==
  /\ svpc = "getUserProfile"
  /\ storeRequests' = storeRequests \o << "rides of user", "profile of user" >>
  /\ userProfile' = getUserProfile(userId, answer)
  /\ svpc' = "getAllUserProfiles"
  /\ UNCHANGED << svcEntry, userId, maxDistanceKm, availableRides, caught,
                  requestsAtCatch, peerIds, peersFailed, matchAvailableRides,
                  ridesWithinPickupRange, matchedRides, svcPromise >>
  /\ UNCHANGED << rides, userLocation, destination, allUsers, currentHour,
                  rpc, filteredRides, scoredRides, recResult >>
  /\ UNCHANGED astarVars
  /\ UNCHANGED outsideService

\* The id query of getAllUserProfiles threw: nothing in getAllUserProfiles
\* catches it, the await in getRecommendedRides throws and its catch block
\* calls findMatchingRides(userLocation, destination).
RecommendPeerIdsThrew ==
  /\ svpc = "getAllUserProfiles"
  /\ storeRequests' = Append(storeRequests, "profile ids")
  /\ caught' = TRUE
  /\ requestsAtCatch' = Len(storeRequests')
  /\ maxDistanceKm' = DefaultMaxDistanceKm
  /\ svpc' = "findMatchingRides"
  /\ UNCHANGED << svcEntry, userId, availableRides, peerIds, peersFailed,
                  matchAvailableRides, ridesWithinPickupRange, matchedRides,
                  svcPromise >>
  /\ UNCHANGED << astarVars, recVars >>
  /\ UNCHANGED outsideService

\* The id query answered null: if (!users) return []; and hybridRecommendation
\* is called with no peers.
RecommendNoPeerIds(hour) ==
  /\ svpc = "getAllUserProfiles"
  /\ storeRequests' = Append(storeRequests, "profile ids")
  /\ peersFailed' = TRUE
  /\ rides' = availableRides
  /\ allUsers' = <<>>
  /\ currentHour' = hour
  /\ rpc' = "filter"
  /\ svpc' = "hybridRecommendation"
  /\ UNCHANGED << svcEntry, userId, maxDistanceKm, availableRides, caught,
                  requestsAtCatch, peerIds, matchAvailableRides,
                  ridesWithinPickupRange, matchedRides, svcPromise >>
  /\ UNCHANGED << userProfile, userLocation, destination, filteredRides,
                  scoredRides, recResult >>
  /\ UNCHANGED astarVars
  /\ UNCHANGED outsideService

\* The id query answered a list of ids.
RecommendPeerIds(users) ==
  /\ svpc = "getAllUserProfiles"
  /\ storeRequests' = Append(storeRequests, "profile ids")
  /\ peerIds' = users
  /\ svpc' = "Promise.all"
  /\ UNCHANGED << svcEntry, userId, maxDistanceKm, availableRides, caught,
                  requestsAtCatch, peersFailed, matchAvailableRides,
                  ridesWithinPickupRange, matchedRides, svcPromise >>
  /\ UNCHANGED << astarVars, recVars >>
  /\ UNCHANGED outsideService

\* await Promise.all(users.map(user => getUserProfile(user.id).catch(...)));
\* no getUserProfile rejects, so no profile is null and the filter keeps
\* every one of them; then hybridRecommendation is called.
RecommendFetchPeers(answers, hour) ==
  /\ svpc = "Promise.all"
  /\ DOMAIN answers = 1..Len(peerIds)
  /\ storeRequests' =
       storeRequests \o [i \in 1..(2 * Len(peerIds)) |->
                           IF i % 2 = 1 THEN "rides of user"
                           ELSE "profile of user"]
  /\ peersFailed' = \A i \in 1..Len(peerIds) : answers[i].threw
  /\ rides' = availableRides
  /\ allUsers' = [i \in 1..Len(peerIds) |-> getUserProfile(peerIds[i], answers[i])]
  /\ currentHour' = hour
  /\ rpc' = "filter"
  /\ svpc' = "hybridRecommendation"
  /\ UNCHANGED << svcEntry, userId, maxDistanceKm, availableRides, caught,
                  requestsAtCatch, peerIds, matchAvailableRides,
                  ridesWithinPickupRange, matchedRides, svcPromise >>
  /\ UNCHANGED << userProfile, userLocation, destination, filteredRides,
                  scoredRides, recResult >>
  /\ UNCHANGED astarVars
  /\ UNCHANGED outsideService

\* hybridRecommendation throws in deductiveFiltering: the catch block of
\* getRecommendedRides calls findMatchingRides(userLocation, destination).
RecommendPipelineThrew ==
  /\ svpc = "hybridRecommendation"
  /\ rpc = "filter"
  /\ filterThrows(rides, userProfile)
  /\ rpc' = "threw"
  /\ caught' = TRUE
  /\ requestsAtCatch' = Len(storeRequests)
  /\ maxDistanceKm' = DefaultMaxDistanceKm
  /\ svpc' = "findMatchingRides"
  /\ UNCHANGED << svcEntry, userId, storeRequests, availableRides, peerIds,
                  peersFailed, matchAvailableRides, ridesWithinPickupRange,
                  matchedRides, svcPromise >>
  /\ UNCHANGED << rides, userProfile, userLocation, destination, allUsers,
                  currentHour, filteredRides, scoredRides, recResult >>
  /\ UNCHANGED astarVars
  /\ UNCHANGED outsideService

\* return recommendations;
RecommendReturn ==
  /\ svpc = "hybridRecommendation"
  /\ rpc = "done"
  /\ svcPromise' = Fulfilled(recResult)
  /\ svpc' = "settled"
  /\ UNCHANGED << svcEntry, userId, maxDistanceKm, storeRequests,
                  availableRides, caught, requestsAtCatch, peerIds,
                  peersFailed, matchAvailableRides, ridesWithinPickupRange,
                  matchedRides >>
  /\ UNCHANGED << astarVars, recVars >>
  /\ UNCHANGED outsideService

\* findMatchingRides: const availableRides = await getAvailableRides();
\* getAvailableRides threw: findMatchingRides rejects, and so does the
\* getRecommendedRides that awaits it in its catch block.
MatchFetchRidesFailed ==
  /\ svpc = "findMatchingRides"
  /\ storeRequests' = Append(storeRequests, "rides")
  /\ svcPromise' = Rejected
  /\ svpc' = "settled"
  /\ UNCHANGED << svcEntry, userId, maxDistanceKm, availableRides, caught,
                  requestsAtCatch, peerIds, peersFailed, matchAvailableRides,
                  ridesWithinPickupRange, matchedRides >>
  /\ UNCHANGED << astarVars, recVars >>
  /\ UNCHANGED outsideService

\* findMatchingRides: getAvailableRides answered, findNearbyRides ran.  With
\* no ride in range the map calls nothing and [] is returned; otherwise the
\* callback calls astarPathfinding(userLocation, destination), once per ride
\* with the same arguments and so the same result: it runs once here.
MatchFetchRides(data) ==
  /\ svpc = "findMatchingRides"
  /\ storeRequests' = Append(storeRequests, "rides")
  /\ matchAvailableRides' = data
  /\ ridesWithinPickupRange' = findNearbyRides(userLocation, data, maxDistanceKm)
  /\ IF ridesWithinPickupRange' = <<>>
     THEN /\ matchedRides' = <<>>
          /\ svcPromise' = Fulfilled(returnedFor(svcEntry, <<>>))
          /\ svpc' = "settled"
          /\ UNCHANGED astarVars
     ELSE /\ svpc' = "astarPathfinding"
          /\ start' = userLocation
          /\ goal' = destination
          /\ waypoints' = <<>>
          /\ apc' = "for"
          /\ seg' = 1
          /\ nodes' = <<>>
          /\ openSet' = <<>>
          /\ closedSet' = <<>>
          /\ path' = <<>>
          /\ totalDistance' = 0
          /\ iter' = 0
          /\ segLog' = <<>>
          /\ astarResult' = NoResult
          /\ UNCHANGED << matchedRides, svcPromise >>
  /\ UNCHANGED << svcEntry, userId, maxDistanceKm, availableRides, caught,
                  requestsAtCatch, peerIds, peersFailed >>
  /\ UNCHANGED recVars
  /\ UNCHANGED outsideService

\* return matchedRides.filter(...).sort(...), and what the caller makes of it
MatchReturn ==
  /\ svpc = "astarPathfinding"
  /\ apc = "done"
  /\ matchedRides' = matchesOf(ridesWithinPickupRange, destination,
                               astarResult.totalDistance)
  /\ svcPromise' = Fulfilled(returnedFor(svcEntry, matchedRides'))
  /\ svpc' = "settled"
  /\ UNCHANGED << svcEntry, userId, maxDistanceKm, storeRequests,
                  availableRides, caught, requestsAtCatch, peerIds,
                  peersFailed, matchAvailableRides, ridesWithinPickupRange >>
  /\ UNCHANGED << astarVars, recVars >>
  /\ UNCHANGED outsideService

(***************************************************************************)
(* calculatePrice                                                          *)
(*                                                                         *)
(* The arithmetic is done in doubles.  A sum that lies exactly halfway     *)
(* between two cent values is exact in the double only when every operand  *)
(* is a dyadic fraction; otherwise the double lies a little to one side of *)
(* it, and toFixed rounds to that side.                                    *)
(***************************************************************************)
baseFare == Fin(5, 2)

\* The rate of a vehicle type not named in the switch, taken for economy.
pricePerKmEconomyByDefault(type) ==
  CASE type = "comfort" -> Fin(3, 2)
    [] type = "premium" -> Fin(5, 2)
    [] OTHER -> N(1)

\* switch (vehicleType) { ... }
pricePerKm(type) ==
  CASE type = "economy" -> N(1)
    [] type = "comfort" -> Fin(3, 2)
    [] type = "premium" -> Fin(5, 2)
    [] OTHER -> Fin(6, 5)

\* The denominators of the dyadic fractions of the model
PowersOfTwo == { 1, 2, 4, 8, 16, 32, 64, 128, 256, 512, 1024 }

IsDyadic(x) == IsFin(x) /\ x.d \in PowersOfTwo

\* The strings x.toFixed(2) can be for a finite x >= 0, as the digits before
\* and after the point: the nearest number of cents, the larger one when the
\* double is exactly halfway.
toFixed2(x, exact) ==
  LET whole == (x.n * 100) \div x.d
      twiceRest == 2 * ((x.n * 100) % x.d)
      cents == IF twiceRest < x.d THEN { whole }
               ELSE IF twiceRest > x.d THEN { whole + 1 }
               ELSE IF exact THEN { whole + 1 }
               ELSE { whole, whole + 1 }
  IN  { [int |-> c \div 100, frac |-> c % 100] : c \in cents }

\* parseFloat of a string with two digits after the point
parseFloat(str) == Fin(str.int * 100 + str.frac, 100)

\* return parseFloat((baseFare + distanceKm * pricePerKm).toFixed(2));
\* Infinity.toFixed(2) is "Infinity", which parseFloat reads as Infinity.
calculatePrice ==
  /\ ppc = "call"
  /\ LET rate == pricePerKm(fareVehicleType)
         sum == FAdd(baseFare, FMul(fareDistanceKm, rate))
     IN  IF IsFin(sum)
         THEN \E str \in toFixed2(sum, IsDyadic(fareDistanceKm) /\ IsDyadic(rate)) :
                fare' = parseFloat(str)
         ELSE fare' = sum
  /\ ppc' = "done"
  /\ UNCHANGED << fareDistanceKm, fareVehicleType >>
  /\ UNCHANGED outsidePrice

(***************************************************************************)
(* acceptRide and updateRideStatus against the rides table                 *)
(*                                                                         *)
(* A call sends one UPDATE ... RETURNING to the store and awaits the       *)
(* answer.  The store runs each UPDATE as one step: a statement waits for  *)
(* the row lock and evaluates its WHERE clause and the row-level-security  *)
(* policies on the row as the earlier statement left it.  The user of a    *)
(* call is auth.uid(); handleAcceptRide passes it as passengerId.          *)
(***************************************************************************)
NoPassenger == "null"

NoCall == [op |-> "none", pc |-> "idle"]

\* A row of the rides table, the columns the two functions read or write
RideRow(driver) ==
  [driver_id |-> driver, passenger_id |-> NoPassenger, status |-> "available",
   current |-> "null", updated_at |-> 0]

\* CONSTRAINT valid_status
ValidStatuses ==
  { "available", "accepted", "in_progress", "completed", "cancelled" }

\* POLICY "Anyone can view available rides": applies to the row an UPDATE
\* reads and to the row it returns
canSelect(uid, row) ==
  row.status = "available" \/ row.driver_id = uid \/ row.passenger_id = uid

\* The USING clauses of "Drivers can update own rides" and "Passengers can
\* accept rides": one of them has to hold of the row as it is
canUpdateUsing(uid, row) == row.driver_id = uid \/ row.status = "available"

\* The WITH CHECK clauses of the two policies: one of them has to hold of
\* the row as written
canUpdateCheck(uid, row) == row.driver_id = uid \/ row.passenger_id = uid

\* acceptRide: .eq('status', 'available')
acceptFilter(row) == row.status = "available"

\* The WHERE clause of the call beyond .eq('id', rideId)
callFilter(call, row) ==
  IF call.op = "acceptRide" THEN acceptFilter(row) ELSE TRUE

\* An UPDATE that finds every row.
rowMatchesAlways(call, uid, row) == TRUE

\* The rows the UPDATE of a call finds: those that pass its WHERE clause and
\* the USING clauses of the policies
rowMatches(call, uid, row) ==
  callFilter(call, row) /\ canUpdateUsing(uid, row) /\ canSelect(uid, row)

\* The row the call writes; now is the value of new Date()
writtenRow(call, uid, row, now) ==
  IF call.op = "acceptRide"
  THEN [row EXCEPT !.passenger_id = uid, !.status = "accepted",
                   !.updated_at = now]
  ELSE [row EXCEPT !.status = call.status, !.updated_at = now,
                   !.current = IF call.currentLocation = "undefined"
                               THEN @ ELSE call.currentLocation]

\* getAvailableRides: .eq('status', 'available')
availableIn(table) == { r \in DOMAIN table : table[r].status = "available" }

\* acceptRide(rideId, user.id): the request is sent
AcceptRideCall(uid, rideId) ==
  /\ clientCalls[uid].pc = "idle"
  /\ callsMade < MaxStoreCalls
  /\ callsMade' = callsMade + 1
  /\ clientCalls' = [clientCalls EXCEPT ![uid] =
       [op |-> "acceptRide", rideId |-> rideId, status |-> "accepted",
        currentLocation |-> "undefined", pc |-> "sent", error |-> FALSE]]
  /\ UNCHANGED << rideTable, settledCalls >>
  /\ UNCHANGED outsideTable

\* updateRideStatus(rideId, status, currentLocation?): the request is sent
UpdateRideStatusCall(uid, rideId, status, currentLocation) ==
  /\ clientCalls[uid].pc = "idle"
  /\ callsMade < MaxStoreCalls
  /\ callsMade' = callsMade + 1
  /\ clientCalls' = [clientCalls EXCEPT ![uid] =
       [op |-> "updateRideStatus", rideId |-> rideId, status |-> status,
        currentLocation |-> currentLocation, pc |-> "sent", error |-> FALSE]]
  /\ UNCHANGED << rideTable, settledCalls >>
  /\ UNCHANGED outsideTable

\* The store runs the UPDATE of a call.  No row passes the filters, or the
\* written row fails the checks: the answer is an error (.single() makes no
\* row an error) and the table is as before.
StoreUpdate(uid) ==
  /\ clientCalls[uid].pc = "sent"
  /\ \E call \in { clientCalls[uid] } :
       IF call.rideId \in DOMAIN rideTable
          /\ rowMatches(call, uid, rideTable[call.rideId]) = TRUE
          /\ \E new \in { writtenRow(call, uid, rideTable[call.rideId], callsMade) } :
               canUpdateCheck(uid, new) /\ canSelect(uid, new)
                 /\ new.status \in ValidStatuses
       THEN /\ rideTable' = [rideTable EXCEPT ![call.rideId] =
                 writtenRow(call, uid, rideTable[call.rideId], callsMade)]
            /\ clientCalls' = [clientCalls EXCEPT ![uid].pc = "answered"]
       ELSE /\ UNCHANGED rideTable
            /\ clientCalls' = [clientCalls EXCEPT ![uid].pc = "answered",
                                                  ![uid].error = TRUE]
  /\ UNCHANGED << settledCalls, callsMade >>
  /\ UNCHANGED outsideTable

\* if (error) throw error; return data as Ride;  An answer that does not
\* arrive is an error as well.
ReceiveAnswer(uid, arrived) ==
  /\ clientCalls[uid].pc = "answered"
  /\ settledCalls' = Append(settledCalls,
       [uid |-> uid, op |-> clientCalls[uid].op,
        rideId |-> clientCalls[uid].rideId,
        threw |-> clientCalls[uid].error \/ ~arrived])
  /\ clientCalls' = [clientCalls EXCEPT ![uid] = NoCall]
  /\ UNCHANGED << rideTable, callsMade >>
  /\ UNCHANGED outsideTable

(***************************************************************************)
(* SearchRideForm: the pickup field, and debounce                          *)
(*                                                                         *)
(* Every handler, every timer callback and every continuation after an     *)
(* await runs as one task of the event loop.  A timer runs no earlier than *)
(* its time, and possibly later.  The loop takes the tasks in the order in *)
(* which they became ready: a timer whose time has come runs before the    *)
(* task of an event that arrives after that time.                          *)
(*                                                                         *)
(* A value that may be null is a sequence of length 0 or 1.  A coordinate  *)
(* written as a string is written in the unit of the model.                *)
(***************************************************************************)
\* debounce(..., 500) of searchPickupSuggestions, debounce(..., 800) of
\* geocodePickup
SuggestionsWait == 500
GeocodeWait == 800

DebouncedFunctions == {"searchPickupSuggestions", "geocodePickup"}

\* The argument wait of the debounce call that made fn
waitOf(fn) ==
  IF fn = "searchPickupSuggestions" THEN SuggestionsWait ELSE GeocodeWait

\* let timeout: not yet assigned
NoTimeout == 0

\* A clearTimeout that clears nothing
clearTimeoutNothing(id, ts) == ts

\* clearTimeout(id): the timer is neither run nor found again; an id that
\* names no timer clears nothing.
clearTimeout(id, ts) == {t \in ts : t.id # id}

\* The timers and what debounce keeps of them
TimerState ==
  [timers |-> timers, timerCount |-> timerCount, timeout |-> timeout,
   invocations |-> invocations]

\* executedFunction(...args) of the debounced function fn:
\* clearTimeout(timeout); timeout = setTimeout(later, wait);
executedFunction(fn, args, st) ==
  LET id == st.timerCount + 1 IN
  [timers |-> clearTimeout(st.timeout[fn], st.timers)
                \cup {[id |-> id, due |-> clock + waitOf(fn), fn |-> fn,
                       args |-> args,
                       invocation |-> Len(st.invocations) + 1]},
   timerCount |-> id,
   timeout |-> [st.timeout EXCEPT ![fn] = id],
   invocations |-> Append(st.invocations,
                          [fn |-> fn, args |-> args, at |-> clock])]

\* The timers whose time has come
DueTimers == {t \in timers : t.due <= clock}

\* The task of timer t is the next one of the loop
IsNextTimer(t) ==
  /\ t \in DueTimers
  /\ \A u \in DueTimers : t.due < u.due \/ (t.due = u.due /\ t.id <= u.id)

\* str.trim(), for strings that hold no blank or nothing but blanks
trim(str) == IF str \in {" ", "  ", "   ", "    "} THEN "" ELSE str

\* number.toString()
numberToString(n) == ToString(n)

\* The number of change events of the pickup input so far
Changes ==
  Cardinality({i \in 1..Len(invocations) :
                 invocations[i].fn = "searchPickupSuggestions"})

\* handlePickupChange(address), the onChange of the pickup input
handlePickupChange(address) ==
  /\ DueTimers = {}
  /\ Changes < MaxEdits
  /\ pickupAddress' = address
  /\ LET searched == executedFunction("searchPickupSuggestions", address,
                                      TimerState)
         st == IF Len(address) >= 3
                 THEN executedFunction("geocodePickup", address, searched)
                 ELSE searched
     IN /\ timers' = st.timers
        /\ timerCount' = st.timerCount
        /\ timeout' = st.timeout
        /\ invocations' = st.invocations
  /\ selectedSuggestion' = << >>
  /\ UNCHANGED << clock, executions, pickupLat, pickupLng, pickupSuggestions,
                  showPickupSuggestions, geocodingPickup, detectingLocation,
                  suggestionRequests, geocodeRequests, locationRequests >>
  /\ UNCHANGED outsideForm

\* later() of searchPickupSuggestions: clearTimeout(timeout); func(...args),
\* which runs up to its await
searchPickupSuggestionsLater(t) ==
  /\ IsNextTimer(t)
  /\ t.fn = "searchPickupSuggestions"
  /\ timers' = clearTimeout(timeout[t.fn], timers) \ {t}
  /\ executions' = Append(executions, [fn |-> t.fn, args |-> t.args,
                                       at |-> clock,
                                       invocation |-> t.invocation])
  /\ IF Len(t.args) < 3
       THEN /\ pickupSuggestions' = << >>
            /\ UNCHANGED suggestionRequests
       ELSE /\ suggestionRequests' = suggestionRequests
                 \cup {[query |-> t.args, execution |-> Len(executions) + 1]}
            /\ UNCHANGED pickupSuggestions
  /\ UNCHANGED << clock, timerCount, timeout, invocations, pickupAddress,
                  pickupLat, pickupLng, showPickupSuggestions, geocodingPickup,
                  detectingLocation, geocodeRequests, locationRequests,
                  selectedSuggestion >>
  /\ UNCHANGED outsideForm

\* searchLocationSuggestions(query) answers results; the rest of func:
\* setPickupSuggestions(results); setShowPickupSuggestions(true);
SuggestionsAnswer(request, results) ==
  /\ DueTimers = {}
  /\ request \in suggestionRequests
  /\ trim(request.query) = "" => results = << >>
  /\ suggestionRequests' = suggestionRequests \ {request}
  /\ pickupSuggestions' = results
  /\ showPickupSuggestions' = TRUE
  /\ UNCHANGED << clock, timers, timerCount, timeout, invocations, executions,
                  pickupAddress, pickupLat, pickupLng, geocodingPickup,
                  detectingLocation, geocodeRequests, locationRequests,
                  selectedSuggestion >>
  /\ UNCHANGED outsideForm

\* later() of geocodePickup: clearTimeout(timeout); func(...args), which
\* runs up to its await
geocodePickupLater(t) ==
  /\ IsNextTimer(t)
  /\ t.fn = "geocodePickup"
  /\ timers' = clearTimeout(timeout[t.fn], timers) \ {t}
  /\ executions' = Append(executions, [fn |-> t.fn, args |-> t.args,
                                       at |-> clock,
                                       invocation |-> t.invocation])
  /\ IF trim(t.args) = ""
       THEN /\ pickupLat' = ""
            /\ pickupLng' = ""
            /\ UNCHANGED << geocodingPickup, geocodeRequests >>
       ELSE /\ geocodingPickup' = TRUE
            /\ geocodeRequests' = geocodeRequests
                 \cup {[address |-> t.args, execution |-> Len(executions) + 1]}
            /\ UNCHANGED << pickupLat, pickupLng >>
  /\ UNCHANGED << clock, timerCount, timeout, invocations, pickupAddress,
                  pickupSuggestions, showPickupSuggestions, detectingLocation,
                  suggestionRequests, locationRequests, selectedSuggestion >>
  /\ UNCHANGED outsideForm

\* geocodeAddress(address) answers result; the rest of func
GeocodeAnswer(request, result) ==
  /\ DueTimers = {}
  /\ request \in geocodeRequests
  /\ geocodeRequests' = geocodeRequests \ {request}
  /\ geocodingPickup' = FALSE
  /\ IF result # << >>
       THEN /\ pickupLat' = numberToString(result[1].lat)
            /\ pickupLng' = numberToString(result[1].lng)
       ELSE /\ pickupLat' = ""
            /\ pickupLng' = ""
  /\ UNCHANGED << clock, timers, timerCount, timeout, invocations, executions,
                  pickupAddress, pickupSuggestions, showPickupSuggestions,
                  detectingLocation, suggestionRequests, locationRequests,
                  selectedSuggestion >>
  /\ UNCHANGED outsideForm

\* handlePickupSuggestionSelect(suggestion), the onClick of a suggestion of
\* the dropdown, which is rendered when showPickupSuggestions is set and
\* there are suggestions
handlePickupSuggestionSelect(suggestion) ==
  /\ DueTimers = {}
  /\ showPickupSuggestions
  /\ \E i \in 1..Len(pickupSuggestions) : pickupSuggestions[i] = suggestion
  /\ pickupAddress' = suggestion.display_name
  /\ pickupLat' = suggestion.lat
  /\ pickupLng' = suggestion.lon
  /\ showPickupSuggestions' = FALSE
  /\ pickupSuggestions' = << >>
  /\ selectedSuggestion' = << suggestion >>
  /\ UNCHANGED << clock, timers, timerCount, timeout, invocations, executions,
                  geocodingPickup, detectingLocation, suggestionRequests,
                  geocodeRequests, locationRequests >>
  /\ UNCHANGED outsideForm

\* handleDetectLocation up to its await: the onClick of the button, which is
\* disabled while detectingLocation is set
handleDetectLocation ==
  /\ DueTimers = {}
  /\ ~detectingLocation
  /\ detectingLocation' = TRUE
  /\ locationRequests' = locationRequests + 1
  /\ selectedSuggestion' = << >>
  /\ UNCHANGED << clock, timers, timerCount, timeout, invocations, executions,
                  pickupAddress, pickupLat, pickupLng, pickupSuggestions,
                  showPickupSuggestions, geocodingPickup, suggestionRequests,
                  geocodeRequests >>
  /\ UNCHANGED outsideForm

\* getCurrentLocation() answers location; the rest of handleDetectLocation.
\* A location found takes the place of the suggestion selected.
LocationAnswer(location) ==
  /\ DueTimers = {}
  /\ locationRequests > 0
  /\ locationRequests' = locationRequests - 1
  /\ detectingLocation' = FALSE
  /\ IF location # << >>
       THEN /\ pickupAddress' = location[1].display_name
            /\ pickupLat' = numberToString(location[1].lat)
            /\ pickupLng' = numberToString(location[1].lng)
            /\ selectedSuggestion' = << >>
       ELSE UNCHANGED << pickupAddress, pickupLat, pickupLng,
                         selectedSuggestion >>
  /\ UNCHANGED << clock, timers, timerCount, timeout, invocations, executions,
                  pickupSuggestions, showPickupSuggestions, geocodingPickup,
                  suggestionRequests, geocodeRequests >>
  /\ UNCHANGED outsideForm

\* onFocus of the pickup input
PickupFocus ==
  /\ DueTimers = {}
  /\ Len(pickupSuggestions) > 0
  /\ ~showPickupSuggestions
  /\ showPickupSuggestions' = TRUE
  /\ UNCHANGED << clock, timers, timerCount, timeout, invocations, executions,
                  pickupAddress, pickupLat, pickupLng, pickupSuggestions,
                  geocodingPickup, detectingLocation, suggestionRequests,
                  geocodeRequests, locationRequests, selectedSuggestion >>
  /\ UNCHANGED outsideForm

\* handleClickOutside: a mousedown outside the pickup field
handleClickOutside ==
  /\ DueTimers = {}
  /\ showPickupSuggestions
  /\ showPickupSuggestions' = FALSE
  /\ UNCHANGED << clock, timers, timerCount, timeout, invocations, executions,
                  pickupAddress, pickupLat, pickupLng, pickupSuggestions,
                  geocodingPickup, detectingLocation, suggestionRequests,
                  geocodeRequests, locationRequests, selectedSuggestion >>
  /\ UNCHANGED outsideForm

\* Time passes
Tick ==
  /\ clock + TickLength <= MaxTime
  /\ clock' = clock + TickLength
  /\ UNCHANGED << timers, timerCount, timeout, invocations, executions,
                  pickupAddress, pickupLat, pickupLng, pickupSuggestions,
                  showPickupSuggestions, geocodingPickup, detectingLocation,
                  suggestionRequests, geocodeRequests, locationRequests,
                  selectedSuggestion >>
  /\ UNCHANGED outsideForm

(***************************************************************************)
(* Inputs of the recommendation pipeline and of the profile learner        *)
(***************************************************************************)
MkDriver(id, rating, totalRides, vehicleType, smoking, conversation) ==
  [id |-> id, rating |-> rating, totalRides |-> N(totalRides),
   vehicleType |-> vehicleType,
   preferences |-> [smokingAllowed |-> smoking, musicPlaying |-> TRUE,
                    conversationLevel |-> conversation],
   rideHistory |-> <<>>]

\* A ride whose dropoff lies 1 km north of its pickup.
MkRide(id, price, rating, vehicleType, smoking, pickup, distanceKm) ==
  [id |-> id,
   driver |-> MkDriver(id, rating, 50, vehicleType, smoking, "quiet"),
   pickup_lat |-> pickup.lat, pickup_lng |-> pickup.lng,
   dropoff_lat |-> pickup.lat + 90, dropoff_lng |-> pickup.lng,
   price |-> N(price), vehicle_type |-> vehicleType,
   distance_km |-> N(distanceKm), estimated_duration_min |-> 2]

MkHistory(pickup, dropoff, price, vehicleType, rating, hour) ==
  [pickup |-> pickup, dropoff |-> dropoff,
   timestamp |-> [hour |-> hour, day |-> 1],
   price |-> N(price), vehicleType |-> vehicleType, rating |-> N(rating),
   timeOfDay |-> getTimeOfDay(hour), dayOfWeek |-> 1]

MkPreferences(vehicleTypes, maxPrice, minRating, smoking, conversation) ==
  [preferredVehicleTypes |-> vehicleTypes, maxPrice |-> N(maxPrice),
   preferredDriverRatings |-> N(minRating), smokingPreference |-> smoking,
   musicPreference |-> TRUE, conversationPreference |-> conversation]

MkProfile(id, history, ratings, preferences) ==
  [id |-> id, rideHistory |-> history, preferences |-> preferences,
   ratings |-> ratings, frequentLocations |-> <<>>]

Home == Loc(0, 0)

\* 5.000 km and 5.011 km from Home
AtFiveKm == Loc(449, 26)
BeyondFiveKm == Loc(450, 26)

\* every rule at its boundary: price = maxPrice 20, rating = minimum 4,
\* pickup exactly 5 km away
RideBoundary == MkRide("r1", 20, N(4), "economy", FALSE, AtFiveKm, 1)
RidePricey == MkRide("r2", 25, N(5), "economy", FALSE, Home, 1)
RideLowRated == MkRide("r3", 10, Fin(7, 2), "economy", FALSE, Home, 1)
RidePremium == MkRide("r4", 10, N(5), "premium", FALSE, Home, 2)
RideSmoking == MkRide("r5", 10, N(5), "economy", TRUE, Home, 1)
RideFar == MkRide("r6", 10, N(5), "economy", FALSE, BeyondFiveKm, 1)
RideFree == MkRide("r7", 0, N(5), "economy", FALSE, Home, 0)

RideCatalog == { RideBoundary, RidePricey, RideLowRated, RidePremium,
                 RideSmoking, RideFar, RideFree }

\* no history at all
ProfileNew ==
  MkProfile("u0", <<>>, <<>>, MkPreferences(<<>>, 20, 4, FALSE, "moderate"))

\* history and the ratings given for it
ProfileRegular ==
  MkProfile("u0",
            << MkHistory(Home, Loc(90, 0), 10, "economy", 5, 9),
               MkHistory(Home, Loc(0, 90), 20, "economy", 4, 23) >>,
            << N(5), N(4) >>,
            MkPreferences(<<"economy">>, 20, 4, FALSE, "quiet"))

\* the shape getUserProfile builds: history with rating 4, no ratings list
ProfileFromStore ==
  MkProfile("u0",
            << MkHistory(Home, Loc(90, 0), 10, "economy", 4, 9) >>,
            <<>>,
            MkPreferences(<<"economy", "comfort">>, 1000, 4, FALSE, "moderate"))

\* history whose average price and average trip distance are 0
ProfileZero ==
  MkProfile("u0",
            << MkHistory(Home, Home, 0, "economy", 4, 9) >>,
            << N(4) >>,
            MkPreferences(<<>>, 20, 4, FALSE, "moderate"))

RiderProfiles == { ProfileNew, ProfileRegular, ProfileFromStore, ProfileZero }

PeerAlike ==
  MkProfile("u1",
            << MkHistory(Home, Loc(90, 0), 10, "economy", 5, 9),
               MkHistory(Home, Loc(90, 0), 20, "premium", 3, 9) >>,
            << N(5), N(3) >>,
            MkPreferences(<<"economy">>, 20, 4, FALSE, "quiet"))

PeerHalfAlike ==
  MkProfile("u2",
            << MkHistory(Home, Loc(90, 0), 20, "economy", 4, 23) >>,
            << N(4) >>,
            MkPreferences(<<"premium">>, 25, 4, FALSE, "moderate"))

PeerUnlike ==
  MkProfile("u3",
            << MkHistory(Home, Loc(90, 0), 10, "premium", 5, 9) >>,
            << N(5) >>,
            MkPreferences(<<"premium">>, 100, 3, TRUE, "chatty"))

PeerNoHistory ==
  MkProfile("u4", <<>>, <<>>, MkPreferences(<<"economy">>, 20, 4, FALSE, "quiet"))

PeerLists == { <<>>,
               << PeerAlike >>,
               << ProfileRegular, PeerUnlike, PeerHalfAlike, PeerNoHistory,
                  PeerAlike >> }

Hours == { 9, 23 }

\* Sequences of at most n different elements of S
RECURSIVE DistinctSeqs(_, _)
DistinctSeqs(S, n) ==
  IF n = 0 THEN { <<>> }
  ELSE LET shorter == DistinctSeqs(S, n - 1)
       IN  shorter \cup
           UNION { { Append(s, x) :
                       x \in { y \in S : \A i \in 1..Len(s) : s[i] # y } } :
                   s \in shorter }

\* The pathfinder before a call
IdleAstar ==
  /\ start = Loc(0, 0)
  /\ goal = Loc(0, 0)
  /\ waypoints = <<>>
  /\ apc = "idle"
  /\ seg = 1
  /\ nodes = <<>>
  /\ openSet = <<>>
  /\ closedSet = <<>>
  /\ path = <<>>
  /\ totalDistance = 0
  /\ iter = 0
  /\ segLog = <<>>
  /\ astarResult = NoResult

\* Routing before a call
IdleRoute ==
  /\ routeStart = Loc(0, 0)
  /\ routeEnd = Loc(0, 0)
  /\ rtpc = "idle"
  /\ altResponse = NoResponse
  /\ retryResponse = NoResponse
  /\ routePromise = Pending

\* calculatePrice before a call
IdlePrice ==
  /\ fareDistanceKm = N(0)
  /\ fareVehicleType = ""
  /\ ppc = "idle"
  /\ fare = N(0)

\* The rides table with no row and no call
IdleTable ==
  /\ rideTable = << >>
  /\ clientCalls = << >>
  /\ settledCalls = << >>
  /\ callsMade = 0

\* The form not rendered
IdleForm ==
  /\ clock = 0
  /\ timers = {}
  /\ timerCount = 0
  /\ timeout = << >>
  /\ invocations = << >>
  /\ executions = << >>
  /\ pickupAddress = ""
  /\ pickupLat = ""
  /\ pickupLng = ""
  /\ pickupSuggestions = << >>
  /\ showPickupSuggestions = FALSE
  /\ geocodingPickup = FALSE
  /\ detectingLocation = FALSE
  /\ suggestionRequests = {}
  /\ geocodeRequests = {}
  /\ locationRequests = 0
  /\ selectedSuggestion = << >>

\* The service before a call
IdleService ==
  /\ svcEntry = "none"
  /\ userId = "u0"
  /\ maxDistanceKm = DefaultMaxDistanceKm
  /\ svpc = "idle"
  /\ storeRequests = <<>>
  /\ availableRides = <<>>
  /\ caught = FALSE
  /\ requestsAtCatch = 0
  /\ peerIds = <<>>
  /\ peersFailed = FALSE
  /\ matchAvailableRides = <<>>
  /\ ridesWithinPickupRange = <<>>
  /\ matchedRides = <<>>
  /\ svcPromise = Pending

\* The pipeline before a call
IdleRec ==
  /\ rides = <<>>
  /\ userProfile = ProfileNew
  /\ userLocation = Home
  /\ destination = Home
  /\ allUsers = <<>>
  /\ currentHour = 0
  /\ rpc = "idle"
  /\ filteredRides = <<>>
  /\ scoredRides = <<>>
  /\ recResult = <<>>

\* No profile object yet
IdleLearner ==
  /\ prefObjs = <<>>
  /\ profiles = <<>>
  /\ callLog = <<>>

InitRec ==
  /\ IdleForm
  /\ IdleTable
  /\ IdlePrice
  /\ IdleService
  /\ IdleAstar
  /\ IdleLearner
  /\ IdleRoute
  /\ rides \in DistinctSeqs(RideCatalog, MaxRides)
  /\ userProfile \in RiderProfiles
  /\ userLocation = Home
  /\ destination = Loc(90, 0)
  /\ allUsers \in PeerLists
  /\ currentHour \in Hours
  /\ rpc = "filter"
  /\ filteredRides = <<>>
  /\ scoredRides = <<>>
  /\ recResult = <<>>

NextRec ==
  \/ RecFilter
  \/ RecScore
  \/ RecSort
  \/ RecSortInconsistent

SpecRec == InitRec /\ [][NextRec]_vars

FeedbackRides == { RideBoundary, RidePremium }
FeedbackRatings == { N(3), N(4), N(5) }
Nows == { [hour |-> 9, day |-> 1], [hour |-> 23, day |-> 6] }

\* One profile object, its preferences held by reference.
InitLearner ==
  /\ IdleForm
  /\ IdleTable
  /\ IdlePrice
  /\ IdleService
  /\ IdleAstar
  /\ IdleRec
  /\ IdleRoute
  /\ \E p \in RiderProfiles :
       /\ prefObjs = << p.preferences >>
       /\ profiles = << [p EXCEPT !.preferences = 1] >>
  /\ callLog = <<>>

NextLearner ==
  \E ride \in FeedbackRides, rating \in FeedbackRatings,
     accepted \in BOOLEAN, now \in Nows :
    UpdateUserProfile(ride, rating, accepted, now)

SpecLearner == InitLearner /\ [][NextLearner]_vars

(***************************************************************************)
(* Inputs of the pipeline with many peers                                  *)
(***************************************************************************)
\* Peer i: its preferences and history vary with i
PeerNumbered(i) ==
  MkProfile("p" \o ToString(i),
            IF i % 2 = 0
            THEN << MkHistory(Home, Loc(90, 0), 10, "economy", 5, 9) >>
            ELSE << MkHistory(Home, Loc(90, 0), 10, "economy", 5, 9),
                    MkHistory(Home, Loc(90, 0), 20, "premium", 3, 9) >>,
            << N(5) >>,
            MkPreferences(<<"economy">>, 20 + 2 * (i % 4), 4, FALSE,
                          IF i % 3 = 0 THEN "moderate" ELSE "quiet"))

ManyPeers == [i \in 1..MaxPeers |-> PeerNumbered(i)]

ManyPeerLists ==
  { <<>>,
    ManyPeers,
    << ProfileRegular >> \o SubSeq(ManyPeers, 1, 3) \o << PeerNoHistory >> }

PeerRideLists ==
  { << RideBoundary >>,
    << RideFree, RidePremium, RideBoundary >>,
    << RidePremium, RideLowRated, RideSmoking >> }

InitPeers ==
  /\ IdleForm
  /\ IdleTable
  /\ IdlePrice
  /\ IdleService
  /\ IdleAstar
  /\ IdleLearner
  /\ IdleRoute
  /\ rides \in PeerRideLists
  /\ userProfile \in RiderProfiles
  /\ userLocation = Home
  /\ destination = Loc(90, 0)
  /\ allUsers \in ManyPeerLists
  /\ currentHour \in Hours
  /\ rpc = "filter"
  /\ filteredRides = <<>>
  /\ scoredRides = <<>>
  /\ recResult = <<>>

SpecPeers == InitPeers /\ [][NextRec]_vars

(***************************************************************************)
(* Inputs of the pathfinder                                                *)
(***************************************************************************)
StartPoints == { Loc(0, 0), Loc(3, -4) }

GoalPoints == { Loc(0, 0), Loc(5, 5), Loc(200, 100), Loc(100, -100),
                Loc(50, 50), Loc(0, 200), Loc(-205, 3), Loc(-190, 100) }

WaypointPoints == { Loc(100, 0), Loc(150, 50) }

RECURSIVE SeqsUpTo(_, _)
SeqsUpTo(S, n) ==
  IF n = 0 THEN { <<>> }
  ELSE LET shorter == SeqsUpTo(S, n - 1)
       IN  shorter \cup { Append(s, x) : s \in shorter, x \in S }

InitAstar ==
  /\ IdleForm
  /\ IdleTable
  /\ IdlePrice
  /\ IdleService
  /\ IdleRec
  /\ IdleLearner
  /\ IdleRoute
  /\ start \in StartPoints
  /\ goal \in GoalPoints
  /\ waypoints \in SeqsUpTo(WaypointPoints, MaxWaypoints)
  /\ apc = "for"
  /\ seg = 1
  /\ nodes = <<>>
  /\ openSet = <<>>
  /\ closedSet = <<>>
  /\ path = <<>>
  /\ totalDistance = 0
  /\ iter = 0
  /\ segLog = <<>>
  /\ astarResult = NoResult

NextAstar ==
  \/ BeginSegment
  \/ AcceptNode
  \/ ExpandNode
  \/ ExpandToFallback
  \/ AstarReturn

SpecAstar == InitAstar /\ [][NextAstar]_vars

\* The pathfinder is synchronous code: once called it runs to its return.
SpecAstarFair == SpecAstar /\ WF_vars(NextAstar)

(***************************************************************************)
(* Inputs of routing                                                       *)
(***************************************************************************)
RouteEnds == { << Loc(0, 0), Loc(210, 105) >>,
               << Loc(3, -4), Loc(200, 100) >>,
               << Loc(0, 0), Loc(0, 0) >> }

MkRoute(distance, duration, coordinates, legs) ==
  [distance |-> distance, duration |-> duration, hasGeometry |-> TRUE,
   coordinates |-> coordinates, legs |-> legs]

\* coordinates are [lng, lat] pairs
RouteMain ==
  MkRoute(2400, 300, << <<0, 0>>, <<100, 50>>, <<105, 210>> >>,
          << <<"Head north", "", "Arrive">> >>)

\* snapped to the road at both ends
RouteShort == MkRoute(2100, 330, << <<1, 1>>, <<104, 209>> >>, <<>>)

\* as short as RouteShort
RouteTie ==
  MkRoute(2100, 310, << <<0, 0>>, <<105, 0>>, <<105, 210>> >>, << <<>> >>)

\* the shortest of all, without a geometry
RouteBroken ==
  [distance |-> 1900, duration |-> 200, hasGeometry |-> FALSE,
   coordinates |-> <<>>, legs |-> <<>>]

RouteOffers == { RouteMain, RouteShort, RouteTie, RouteBroken }

ProviderResponses ==
  { Response("networkError", <<>>), Response("httpError", <<>>),
    Response("badJson", <<>>) }
  \cup { Response("ok", routes) :
           routes \in DistinctSeqs(RouteOffers, MaxAlternatives) }

InitRoute ==
  /\ IdleForm
  /\ IdleTable
  /\ IdlePrice
  /\ IdleService
  /\ IdleAstar
  /\ IdleRec
  /\ IdleLearner
  /\ \E ends \in RouteEnds : routeStart = ends[1] /\ routeEnd = ends[2]
  /\ rtpc = "getShortestRoute"
  /\ altResponse = NoResponse
  /\ retryResponse = NoResponse
  /\ routePromise = Pending

NextRoute ==
  \E response \in ProviderResponses :
    \/ ShortestResolve(response)
    \/ ShortestRetry(response)
    \/ OptimalSettle(response)

SpecRoute == InitRoute /\ [][NextRoute]_vars

(***************************************************************************)
(* Inputs of the service                                                   *)
(***************************************************************************)
ServiceDestinations == { Loc(90, 0), Loc(200, 100), Loc(0, 200) }

ServiceMaxDistances == { 1, DefaultMaxDistanceKm }

ServiceHours == { 9 }

\* What the rides table holds when it is asked
StoreRideLists == { <<>>,
                    << RideFar >>,
                    << RideBoundary, RidePremium, RideLowRated >>,
                    << RideFar, RideLowRated, RideBoundary, RidePricey >>,
                    << AsSelected(RideLowRated) >>,
                    << AsSelected(RideLowRated), AsSelected(RidePremium),
                       AsSelected(RideBoundary) >> }

RidesAnswers ==
  { RidesAnswer(TRUE, <<>>) } \cup { RidesAnswer(FALSE, data) : data \in StoreRideLists }

StoredProfileRow ==
  [preferred_vehicle_types |-> <<"economy">>, max_price |-> N(20),
   min_driver_rating |-> N(0), smoking_preference |-> FALSE,
   music_preference |-> FALSE, conversation_preference |-> "quiet"]

\* What the store answers about the rider
RiderAnswers ==
  { ProfileThrew,
    ProfileAnswer(<<>>, FALSE, NoProfileRow),
    ProfileAnswer(<< StoredRide(RidePremium, [hour |-> 9, day |-> 1]) >>,
                  TRUE, StoredProfileRow) }

\* What the store answers about a peer
PeerAnswers ==
  { ProfileThrew,
    ProfileAnswer(<< StoredRide(RidePremium, [hour |-> 9, day |-> 1]),
                     StoredRide(RideFree, [hour |-> 23, day |-> 6]) >>,
                  FALSE, NoProfileRow) }

PeerIdLists == { << "u1" >>, << "u0", "u1" >> }

PeerAnswerLists ==
  UNION { [1..n -> PeerAnswers] : n \in { Len(users) : users \in PeerIdLists } }

InitService ==
  /\ IdleForm
  /\ IdleTable
  /\ IdlePrice
  /\ IdleAstar
  /\ IdleLearner
  /\ IdleRoute
  /\ rides = <<>>
  /\ userProfile = ProfileNew
  /\ userLocation = Home
  /\ destination \in ServiceDestinations
  /\ allUsers = <<>>
  /\ currentHour = 0
  /\ rpc = "idle"
  /\ filteredRides = <<>>
  /\ scoredRides = <<>>
  /\ recResult = <<>>
  /\ svcEntry \in { "getRecommendedRides", "findMatchingRides" }
  /\ userId = "u0"
  /\ maxDistanceKm \in IF svcEntry = "findMatchingRides"
                       THEN ServiceMaxDistances ELSE { DefaultMaxDistanceKm }
  /\ svpc = IF svcEntry = "findMatchingRides"
            THEN "findMatchingRides" ELSE "getAvailableRides"
  /\ storeRequests = <<>>
  /\ availableRides = <<>>
  /\ caught = FALSE
  /\ requestsAtCatch = 0
  /\ peerIds = <<>>
  /\ peersFailed = FALSE
  /\ matchAvailableRides = <<>>
  /\ ridesWithinPickupRange = <<>>
  /\ matchedRides = <<>>
  /\ svcPromise = Pending

\* The hybrid pipeline is typed for rides whose driver carries preferences;
\* the store is asked for rides "as any", and the lists above hold rides of
\* the pipeline's shape and rides as the select of getAvailableRides shapes
\* them.  The rides of the store all come with a driver rating, and the profile
\* getUserProfile builds has either no history or no ratings: the scores of
\* one call are all numbers or all NaN, and the comparator of the sort is
\* consistent on them.
NextService ==
  \/ \E answer \in RidesAnswers : RecommendFetchRides(answer)
  \/ \E answer \in RiderAnswers : RecommendFetchProfile(answer)
  \/ RecommendPeerIdsThrew
  \/ \E hour \in ServiceHours : RecommendNoPeerIds(hour)
  \/ \E users \in PeerIdLists : RecommendPeerIds(users)
  \/ \E answers \in PeerAnswerLists : \E hour \in ServiceHours :
       RecommendFetchPeers(answers, hour)
  \/ RecFilter
  \/ RecScore
  \/ RecSort
  \/ RecommendPipelineThrew
  \/ RecommendReturn
  \/ MatchFetchRidesFailed
  \/ \E data \in StoreRideLists : MatchFetchRides(data)
  \/ BeginSegment
  \/ AcceptNode
  \/ ExpandNode
  \/ ExpandToFallback
  \/ AstarReturn
  \/ MatchReturn

SpecService == InitService /\ [][NextService]_vars

(***************************************************************************)
(* Inputs of calculatePrice                                                *)
(***************************************************************************)
VehicleTypes == { "economy", "comfort", "premium", "luxury", "" }

\* Distances in steps of a metre up to MaxPriceMetres, and some longer ones
PriceDistances ==
  { Fin(m, 1000) : m \in 0..MaxPriceMetres } \cup
  { Fin(1, 8), Fin(1, 4), N(1), N(10), Fin(10005, 1000), PInf }

InitPrice ==
  /\ IdleForm
  /\ IdleTable
  /\ IdleService
  /\ IdleAstar
  /\ IdleRec
  /\ IdleLearner
  /\ IdleRoute
  /\ fareDistanceKm \in PriceDistances
  /\ fareVehicleType \in VehicleTypes
  /\ ppc = "call"
  /\ fare = N(0)

NextPrice == calculatePrice

SpecPrice == InitPrice /\ [][NextPrice]_vars

(***************************************************************************)
(* Inputs of the rides table                                               *)
(***************************************************************************)
Passengers == { "p1", "p2", "p3" }
Drivers == { "d1" }
RideIds == { "ride1" }
UnknownRideIds == { "ride9" }

InitTable ==
  /\ IdleForm
  /\ IdlePrice
  /\ IdleService
  /\ IdleAstar
  /\ IdleRec
  /\ IdleLearner
  /\ IdleRoute
  /\ rideTable = [r \in RideIds |-> RideRow("d1")]
  /\ clientCalls = [u \in Passengers \cup Drivers |-> NoCall]
  /\ settledCalls = << >>
  /\ callsMade = 0

\* Passengers accepting rides, and nothing else
NextAccept ==
  \/ \E uid \in Passengers : \E rideId \in RideIds \cup UnknownRideIds :
       AcceptRideCall(uid, rideId)
  \/ \E uid \in Passengers : StoreUpdate(uid)
  \/ \E uid \in Passengers : \E arrived \in BOOLEAN : ReceiveAnswer(uid, arrived)

SpecAccept == InitTable /\ [][NextAccept]_vars

\* Two passengers and the driver accepting rides and setting their status
StatusUsers == { "p1", "p2", "d1" }
StatusesSet == { "available", "completed" }

NextRideStatus ==
  \/ \E uid \in StatusUsers \ Drivers : \E rideId \in RideIds :
       AcceptRideCall(uid, rideId)
  \/ \E uid \in StatusUsers : \E rideId \in RideIds :
     \E status \in StatusesSet : \E currentLocation \in { "undefined", "here" } :
       UpdateRideStatusCall(uid, rideId, status, currentLocation)
  \/ \E uid \in StatusUsers : StoreUpdate(uid)
  \/ \E uid \in StatusUsers : ReceiveAnswer(uid, TRUE)

SpecRideStatus == InitTable /\ [][NextRideStatus]_vars

(***************************************************************************)
(* Inputs of the form                                                      *)
(***************************************************************************)
\* What the user types into the pickup input
Addresses == {"Ma", "Mall", "   "}

SuggestionMall ==
  [place_id |-> 1, display_name |-> "Mall Road, Lahore", lat |-> "315204",
   lon |-> "743587", type |-> "road"]

\* What searchLocationSuggestions answers
SuggestionsAnswers == {<< >>, << SuggestionMall >>}

\* What geocodeAddress answers: null, or the first hit of the search
GeocodeAnswers ==
  {<< >>, << [lat |-> 315497, lng |-> 743436, display_name |-> "Mall"] >>}

\* What getCurrentLocation answers
LocationAnswers ==
  {<< >>, << [lat |-> 336844, lng |-> 730479, display_name |-> "Here"] >>}

\* The form after its first render: the effect has called
\* handleDetectLocation.
InitForm ==
  /\ IdleAstar
  /\ IdleRoute
  /\ IdleRec
  /\ IdleLearner
  /\ IdleService
  /\ IdlePrice
  /\ IdleTable
  /\ clock = 0
  /\ timers = {}
  /\ timerCount = 0
  /\ timeout = [fn \in DebouncedFunctions |-> NoTimeout]
  /\ invocations = << >>
  /\ executions = << >>
  /\ pickupAddress = ""
  /\ pickupLat = ""
  /\ pickupLng = ""
  /\ pickupSuggestions = << >>
  /\ showPickupSuggestions = FALSE
  /\ geocodingPickup = FALSE
  /\ detectingLocation = TRUE
  /\ suggestionRequests = {}
  /\ geocodeRequests = {}
  /\ locationRequests = 1
  /\ selectedSuggestion = << >>

NextForm ==
  \/ \E address \in Addresses : handlePickupChange(address)
  \/ \E t \in timers : searchPickupSuggestionsLater(t)
  \/ \E request \in suggestionRequests, results \in SuggestionsAnswers :
       SuggestionsAnswer(request, results)
  \/ \E t \in timers : geocodePickupLater(t)
  \/ \E request \in geocodeRequests, result \in GeocodeAnswers :
       GeocodeAnswer(request, result)
  \/ \E suggestion \in {SuggestionMall} :
       handlePickupSuggestionSelect(suggestion)
  \/ handleDetectLocation
  \/ \E location \in LocationAnswers : LocationAnswer(location)
  \/ PickupFocus
  \/ handleClickOutside
  \/ Tick

SpecForm == InitForm /\ [][NextForm]_vars

(***************************************************************************)
(* Properties of the pathfinder                                            *)
(***************************************************************************)
\* The path a segment contributes, in travel order.
SegmentPath(entry) ==
  IF entry.kind = "accepted" THEN Reverse(entry.pushed) ELSE entry.pushed

RECURSIVE TravelOrder(_)
TravelOrder(log) ==
  IF log = <<>> THEN <<>>
  ELSE SegmentPath(Head(log)) \o TravelOrder(Tail(log))

\* C1: for every start, goal and waypoint list astarPathfinding ends each
\* segment's while loop after finitely many iterations and returns a path
\* with at least one point.
C1_Terminates == <>(apc = "done" /\ Len(astarResult.path) >= 1)

\* A call that returned after one segment was ended by an accepted node and
\* another by the open set becoming empty.
C1_Witness ==
  /\ apc = "done"
  /\ Len(astarResult.path) >= 1
  /\ \E i, j \in 1..Len(segLog) :
       segLog[i].kind = "accepted" /\ segLog[j].kind = "fallback"

\* C2: when the open set of the only segment empties before a node within
\* 0.1 km of the goal is popped, the result is the path [start, goal], in
\* that order, and their direct distance.
C2_FallbackStartThenGoal ==
  (apc = "done" /\ waypoints = <<>> /\ segLog[1].kind = "fallback")
    => /\ astarResult.path = <<start, goal>>
       /\ astarResult.totalDistance = haversineDistance(start, goal)

\* C3: with at least one waypoint the returned path is the segments' paths
\* concatenated in travel order, beginning at start.
C3_SegmentsInTravelOrder ==
  (apc = "done" /\ Len(waypoints) >= 1)
    => /\ astarResult.path = TravelOrder(segLog)
       /\ astarResult.path[1] = start

\* C4: when the only segment's search pops a node within 0.1 km of the
\* goal, the path runs from start to that node along parent links of the
\* search tree, whose parents are always older nodes, and totalDistance is
\* that node's g; a start within 0.1 km of the goal gives [start] and 0
\* with nothing expanded.
C4_AcceptedPathFollowsParents ==
  /\ \A i \in 1..Len(nodes) : nodes[i].parent < i
  /\ (apc = "done" /\ waypoints = <<>> /\ segLog[1].kind = "accepted")
       => LET p == astarResult.path
              acc == segLog[1].node
          IN  /\ Len(p) >= 1
              /\ p[1] = start
              /\ p[Len(p)] = nodes[acc].location
              /\ \A k \in 1..(Len(p) - 1) :
                   \E c \in 1..Len(nodes) :
                     /\ nodes[c].parent # 0
                     /\ nodes[c].location = p[k + 1]
                     /\ nodes[nodes[c].parent].location = p[k]
              /\ \A k, m \in 1..Len(p) : p[k] = p[m] => k = m
              /\ astarResult.totalDistance = nodes[acc].g
  /\ (apc = "done" /\ waypoints = <<>>
        /\ haversineDistance(start, goal) < GoalRadius)
       => /\ astarResult.path = <<start>>
          /\ astarResult.totalDistance = 0
          /\ closedSet = <<>>

\* A single-segment call that accepted a node two steps from start.
C4_Witness ==
  /\ apc = "done"
  /\ waypoints = <<>>
  /\ segLog[1].kind = "accepted"
  /\ Len(astarResult.path) >= 3

\* C22: generateNeighbors returns exactly three locations, one step from
\* current in latitude only, in longitude only, and in both, and no
\* neighbour is farther from the goal than current in latitude or in
\* longitude, also when current shares the goal's latitude or longitude or
\* is less than a step from it.  Stated of every node the search expanded.
C22_NeighborsNeverStepAway ==
  apc = "while" =>
    \A k \in 1..Len(closedSet) :
      LET current == nodes[closedSet[k]].location
          neighbors == generateNeighbors(current, segmentEnd)
      IN  /\ Len(neighbors) = 3
          /\ Abs(neighbors[1].lat - current.lat) = Step
          /\ neighbors[1].lng = current.lng
          /\ neighbors[2].lat = current.lat
          /\ Abs(neighbors[2].lng - current.lng) = Step
          /\ Abs(neighbors[3].lat - current.lat) = Step
          /\ Abs(neighbors[3].lng - current.lng) = Step
          /\ \A i \in 1..3 :
               /\ Abs(neighbors[i].lat - segmentEnd.lat)
                    <= Abs(current.lat - segmentEnd.lat)
               /\ Abs(neighbors[i].lng - segmentEnd.lng)
                    <= Abs(current.lng - segmentEnd.lng)

\* The node ids that are in a sequence of ids
Ids(s) == { s[i] : i \in 1..Len(s) }

\* The nodes that were in the open set and were replaced there
Replaced == (1..Len(nodes)) \ (Ids(openSet) \cup Ids(closedSet))

\* The node that took the place of the replaced node id: the next one
\* created for the same location
Replacement(id) ==
  CHOOSE j \in (id + 1)..Len(nodes) :
    /\ SameLocation(nodes[j].location, nodes[id].location)
    /\ \A i \in (id + 1)..(j - 1) :
         ~SameLocation(nodes[i].location, nodes[id].location)

\* C23: throughout a segment search the open set holds at most one node per
\* location (compared with the 0.0001-degree tolerance), no location of the
\* closed set is in the open set, and an open-set entry is only replaced by
\* an entry for the same location with a strictly smaller g.
C23_OpenSetOnePerLocation ==
  apc = "while" =>
    /\ \A i, j \in 1..Len(openSet) :
         SameLocation(nodes[openSet[i]].location, nodes[openSet[j]].location)
           => i = j
    /\ \A i \in 1..Len(openSet) : \A k \in 1..Len(closedSet) :
         ~SameLocation(nodes[openSet[i]].location, nodes[closedSet[k]].location)
    /\ \A id \in Replaced :
         /\ \E j \in (id + 1)..Len(nodes) :
              SameLocation(nodes[j].location, nodes[id].location)
         /\ nodes[Replacement(id)].g < nodes[id].g

\* An entry was replaced, and a neighbour in the closed set was passed over
C23_Witness ==
  /\ apc = "while"
  /\ Replaced # {}
  /\ Len(closedSet) >= 2
  /\ Len(nodes) < 1 + 3 * Len(closedSet)

(***************************************************************************)
(* Properties of the recommendation pipeline                               *)
(***************************************************************************)
\* A ride that violates none of the five rules of the deductive filter.
ViolatesNoRule(ride) ==
  LET p == userProfile.preferences
  IN  /\ FLe(ride.price, p.maxPrice)
      /\ FGe(ride.driver.rating, p.preferredDriverRatings)
      /\ \/ p.preferredVehicleTypes = <<>>
         \/ \E k \in 1..Len(p.preferredVehicleTypes) :
              p.preferredVehicleTypes[k] = ride.vehicle_type
      /\ p.smokingPreference = ride.driver.preferences.smokingAllowed
      /\ haversineDistance(userLocation,
                           Loc(ride.pickup_lat, ride.pickup_lng)) <= 5000

ResultsFor(ride) == {k \in 1..Len(recResult) : recResult[k].ride = ride}

IndexInRides(ride) == CHOOSE i \in 1..Len(rides) : rides[i] = ride

\* C5: hybridRecommendation returns exactly one result for each input ride
\* that violates none of the five rules and none for a ride that violates
\* one; rides at the boundaries of price, rating and distance are kept, and
\* nothing but input rides is returned, the list being empty when no ride
\* survives.
C5_OneResultPerAdmissibleRide ==
  rpc = "done" =>
    /\ \A i \in 1..Len(rides) :
         Cardinality(ResultsFor(rides[i]))
           = IF ViolatesNoRule(rides[i]) THEN 1 ELSE 0
    /\ \A k \in 1..Len(recResult) :
         \E i \in 1..Len(rides) : recResult[k].ride = rides[i]

\* A finished call that kept the ride at all three boundaries and dropped
\* another ride.
C5_Witness ==
  /\ rpc = "done"
  /\ ResultsFor(RideBoundary) # {}
  /\ RideBoundary.price = userProfile.preferences.maxPrice
  /\ RideBoundary.driver.rating = userProfile.preferences.preferredDriverRatings
  /\ haversineDistance(userLocation, AtFiveKm) = 5000
  /\ Len(recResult) < Len(rides)

\* C6: every result's recommendationScore equals 0.4*inductiveScore
\* + 0.35*contentScore + 0.25*collaborativeScore and lies within [0,100].
C6_WeightedScoreInRange ==
  rpc = "done" =>
    \A k \in 1..Len(recResult) :
      LET r == recResult[k]
      IN  /\ FEq(r.recommendationScore,
                 FAdd(FAdd(FMul(Fin(2, 5), r.inductiveScore),
                           FMul(Fin(7, 20), r.contentScore)),
                      FMul(Fin(1, 4), r.collaborativeScore)))
          /\ FGe(r.recommendationScore, N(0))
          /\ FLe(r.recommendationScore, N(100))

\* C7: contentBasedFiltering returns a defined number in [0,100] for every
\* ride and rider profile, sparse profiles included.
C7_ContentScoreDefined ==
  rpc \in {"sort", "done"} =>
    \A k \in 1..Len(scoredRides) :
      /\ IsFin(scoredRides[k].contentScore)
      /\ FGe(scoredRides[k].contentScore, N(0))
      /\ FLe(scoredRides[k].contentScore, N(100))

\* C8: the returned list is ordered by recommendationScore descending, and
\* results of equal score keep the relative order of their rides in the
\* input list.
C8_SortedDescendingStable ==
  rpc = "done" =>
    \A a, b \in 1..Len(recResult) :
      a < b =>
        /\ FGe(recResult[a].recommendationScore,
               recResult[b].recommendationScore)
        /\ FEq(recResult[a].recommendationScore,
               recResult[b].recommendationScore)
             => IndexInRides(recResult[a].ride) < IndexInRides(recResult[b].ride)

\* The peers collaborativeFiltering uses for the rider
PeersUsed == findSimilarUsers(userProfile, allUsers)

\* A peer that may be used: not the rider, with history, similar enough
Eligible(u) ==
  /\ u.id # userProfile.id
  /\ Len(u.rideHistory) > 0
  /\ FGt(calculateUserSimilarity(userProfile, u), Fin(1, 2))

\* The percentage of a peer's history that matches the ride: same vehicle
\* type, rated 4 or more, price within 20% of the ride's price
MatchingPercent(ride, u) ==
  LET matching == { i \in 1..Len(u.rideHistory) :
                      /\ u.rideHistory[i].vehicleType = ride.vehicle_type
                      /\ FGe(u.rideHistory[i].rating, N(4))
                      /\ FLt(FAbs(FSub(u.rideHistory[i].price, ride.price)),
                             FMul(ride.price, Fin(1, 5))) }
  IN  FDiv(N(100 * Cardinality(matching)), N(Len(u.rideHistory)))

WeightedAverage(ride, used) ==
  FDiv(SumNum([i \in 1..Len(used) |->
                 FMul(MatchingPercent(ride, used[i].user), used[i].similarity)]),
       SumNum([i \in 1..Len(used) |-> used[i].similarity]))

\* C24: the peers used by collaborativeFiltering are at most 10, are never
\* the rider or a peer without history, each has similarity above 0.5 to
\* the rider, and no eligible peer left out is strictly more similar than
\* one used; the score is the similarity-weighted average of the peers'
\* matching-history percentages and lies in [0, 100].
C24_TopSimilarPeersAverage ==
  rpc = "sort" =>
    \E used \in { PeersUsed } :
      /\ Len(used) <= 10
      /\ \A i \in 1..Len(used) :
           /\ Includes(allUsers, used[i].user)
           /\ Eligible(used[i].user)
           /\ used[i].similarity =
                calculateUserSimilarity(userProfile, used[i].user)
      /\ \A j \in 1..Len(allUsers) :
           (Eligible(allUsers[j])
              /\ \A i \in 1..Len(used) : used[i].user # allUsers[j])
             => \A i \in 1..Len(used) :
                  ~FGt(calculateUserSimilarity(userProfile, allUsers[j]),
                       used[i].similarity)
      /\ \A k \in 1..Len(scoredRides) :
           /\ used # <<>> =>
                scoredRides[k].collaborativeScore =
                  WeightedAverage(scoredRides[k].ride, used)
           /\ FGe(scoredRides[k].collaborativeScore, N(0))
           /\ FLe(scoredRides[k].collaborativeScore, N(100))

\* More than 10 eligible peers, 10 of them used, of differing similarity,
\* and a score that is not the neutral one
C24_Witness ==
  /\ rpc = "sort"
  /\ Cardinality({ j \in 1..Len(allUsers) : Eligible(allUsers[j]) }) > 10
  /\ Len(PeersUsed) = 10
  /\ FGt(PeersUsed[1].similarity, PeersUsed[10].similarity)
  /\ Len(scoredRides) >= 1
  /\ scoredRides[1].collaborativeScore # N(50)

(***************************************************************************)
(* Properties of the profile learner                                       *)
(***************************************************************************)
\* C9: updateUserProfile never modifies its input profile: the input's
\* rideHistory, ratings and preferences, preferredVehicleTypes included,
\* read after the call are what they were before it.
C9_InputNotModified ==
  [][ LET input == profiles[Len(profiles)]
      IN  [input EXCEPT !.preferences = prefObjs'[input.preferences]]
            = Deep(input) ]_vars

\* The history entry and the rating the j-th call of the chain appends.
AppendedEntry(j) ==
  [pickup |-> Loc(callLog[j].ride.pickup_lat, callLog[j].ride.pickup_lng),
   dropoff |-> Loc(callLog[j].ride.dropoff_lat, callLog[j].ride.dropoff_lng),
   timestamp |-> callLog[j].now,
   price |-> callLog[j].ride.price,
   vehicleType |-> callLog[j].ride.vehicle_type,
   rating |-> callLog[j].rating,
   timeOfDay |-> getTimeOfDay(callLog[j].now.hour),
   dayOfWeek |-> callLog[j].now.day]

\* C10: after n calls chained on the returned value the rideHistory has
\* length initial+n, keeps the initial rideHistory as its prefix and holds
\* the new entries in call order behind it; ratings grows the same way, one
\* rating per call.
C10_AppendOnly ==
  /\ Len(profiles) = Len(callLog) + 1
  /\ \A k \in 1..Len(profiles) :
       LET n == k - 1
           initial == profiles[1]
           result == profiles[k]
       IN  /\ Len(result.rideHistory) = Len(initial.rideHistory) + n
           /\ SubSeq(result.rideHistory, 1, Len(initial.rideHistory))
                = initial.rideHistory
           /\ \A j \in 1..n :
                result.rideHistory[Len(initial.rideHistory) + j]
                  = AppendedEntry(j)
           /\ Len(result.ratings) = Len(initial.ratings) + n
           /\ SubSeq(result.ratings, 1, Len(initial.ratings)) = initial.ratings
           /\ \A j \in 1..n :
                result.ratings[Len(initial.ratings) + j] = callLog[j].rating

\* Two chained calls with different feedback on a profile that had a history.
C10_Witness ==
  /\ Len(callLog) >= 2
  /\ profiles[1].rideHistory # <<>>
  /\ callLog[1] # callLog[2]

\* The elements of a list and the number of times x occurs in it.
Elements(s) == { s[i] : i \in 1..Len(s) }

Occurrences(s, x) == Cardinality({ i \in 1..Len(s) : s[i] = x })

\* C11: the returned profile's preferredVehicleTypes is the previous set
\* plus the ride's vehicle class when accepted is true and rating >= 4, and
\* the previous set otherwise; no class is ever present twice, however
\* often positive feedback for it is repeated.
C11_SetInsertIdempotent ==
  [][ LET before == Deep(profiles[Len(profiles)]).preferences.preferredVehicleTypes
          call == callLog'[Len(callLog')]
          returned == profiles'[Len(profiles')]
          after == prefObjs'[returned.preferences].preferredVehicleTypes
      IN  /\ Elements(after)
               = IF call.accepted /\ FGe(call.rating, N(4))
                 THEN Elements(before) \cup {call.ride.vehicle_type}
                 ELSE Elements(before)
          /\ \A x \in Elements(after) : Occurrences(after, x) = 1 ]_vars

\* Two positive-feedback calls in a row for a class that was not preferred
\* at first, the first of them at the boundary rating 4.
C11_Witness ==
  /\ Len(callLog) >= 2
  /\ callLog[1].accepted /\ callLog[1].rating = N(4)
  /\ callLog[2].accepted /\ callLog[2].rating = N(5)
  /\ callLog[1].ride.vehicle_type = callLog[2].ride.vehicle_type
  /\ Occurrences(Deep(profiles[3]).preferences.preferredVehicleTypes,
                 callLog[1].ride.vehicle_type) = 1
  /\ Len(Deep(profiles[3]).preferences.preferredVehicleTypes) = 2

\* An hour of the night, of the morning, of the afternoon, of the evening.
HourMarks == { 2, 8, 14, 19 }

\* The scored rides of the same call made half a day later.
ScoredHalfADayLater ==
  [i \in 1..Len(filteredRides) |->
     scoreRide(filteredRides[i], userProfile, userLocation, destination,
               allUsers, (currentHour + 12) % 24)]

\* C17: the wall-clock hour read inside inductiveScoring changes no score:
\* every scored ride has the inductive score it would have in any other
\* part of the day, and the same call made half a day later returns, the
\* comparator being consistent, the same rides with the same scores in the
\* same order.
C17_HourChangesNothing ==
  /\ rpc = "sort" =>
       \A k \in 1..Len(scoredRides) : \A hour \in HourMarks :
         scoredRides[k].inductiveScore
           = inductiveScoring(scoredRides[k].ride, userProfile, userLocation,
                              destination, hour)
  /\ (rpc = "done" /\ ConsistentComparator(recResult))
       => recResult = SortByScore(ScoredHalfADayLater)

\* A finished call for a rider whose history prefers the ride's class in
\* the morning more than in the afternoon.
C17_Witness ==
  /\ rpc = "done"
  /\ Len(recResult) >= 1
  /\ IsFin(recResult[1].recommendationScore)
  /\ calculateTimePreference(9, recResult[1].ride.vehicle_type,
                             userProfile.rideHistory)
       # calculateTimePreference(14, recResult[1].ride.vehicle_type,
                                 userProfile.rideHistory)

\* A peer that counts for the rider: another user with a history and a
\* similarity above 0.5.
CountsAsSimilar(peer) ==
  /\ peer.id # userProfile.id
  /\ peer.rideHistory # <<>>
  /\ FGt(calculateUserSimilarity(userProfile, peer), Fin(1, 2))

\* C18: collaborativeFiltering returns exactly 50 for an empty peer list,
\* and for any peer list in which no peer other than the rider has a
\* non-empty history and similarity > 0.5, whatever the ride and profile.
C18_NeutralWithoutSimilarPeers ==
  rpc = "sort" =>
    \A k \in 1..Len(scoredRides) :
      /\ collaborativeFiltering(scoredRides[k].ride, userProfile, <<>>) = N(50)
      /\ (\A j \in 1..Len(allUsers) : ~CountsAsSimilar(allUsers[j]))
           => /\ scoredRides[k].collaborativeScore = N(50)
              /\ collaborativeFiltering(scoredRides[k].ride, userProfile,
                                        allUsers) = N(50)

\* A scored ride of a rider whose only peer has similarity exactly 0.5.
C18_Witness ==
  /\ rpc = "done"
  /\ Len(recResult) >= 1
  /\ allUsers = << PeerAlike >>
  /\ calculateUserSimilarity(userProfile, PeerAlike) = Fin(1, 2)
  /\ recResult[1].collaborativeScore = N(50)
  /\ likeScore(recResult[1].ride, PeerAlike) # N(50)

(***************************************************************************)
(* Properties of the service                                               *)
(***************************************************************************)
PickupDistance(ride) == haversineKm(userLocation, PickupOf(ride))

WithinRadius(ride) == FLe(PickupDistance(ride), N(maxDistanceKm))

\* C20: findNearbyRides returns exactly the given rides whose pickup is at
\* most maxDistanceKm (5 by default, the radius itself included) from the
\* user, each paired with that distance, in ascending order of distance.
C20_NearbyWithinRadiusAscending ==
  LET given == matchAvailableRides
      near == ridesWithinPickupRange
  IN  /\ \A k \in 1..Len(near) :
           /\ Includes(given, near[k].ride)
           /\ WithinRadius(near[k].ride)
           /\ near[k].distance = PickupDistance(near[k].ride)
      /\ \A i \in 1..Len(given) :
           WithinRadius(given[i]) =>
             Cardinality({ k \in 1..Len(near) : near[k].ride = given[i] }) = 1
      /\ Len(near) = Cardinality({ i \in 1..Len(given) : WithinRadius(given[i]) })
      /\ \A k \in 1..(Len(near) - 1) : FLe(near[k].distance, near[k + 1].distance)

\* The default radius, a ride exactly 5 km away kept, a ride beyond dropped
\* and a nearer ride moved in front of one given before it.
C20_Witness ==
  /\ maxDistanceKm = DefaultMaxDistanceKm
  /\ matchAvailableRides = << RideFar, RideLowRated, RideBoundary, RidePricey >>
  /\ Len(ridesWithinPickupRange) = 3
  /\ ridesWithinPickupRange[3] = [ride |-> RideBoundary, distance |-> N(5)]
  /\ ridesWithinPickupRange[2].ride = RidePricey

\* The trip distance findMatchingRides estimates, in km
EstimatedTripKm == Fin(astarResult.totalDistance, 1000)

ExpectedMatchScore(ride) ==
  LET routeDeviation == FAbs(FSub(EstimatedTripKm, ride.distance_km))
  IN  FMax(N(0),
           FSub(N(100),
                FAdd(FAdd(FMul(PickupDistance(ride), N(10)),
                          FMul(haversineKm(destination, DropoffOf(ride)), N(5))),
                     FMul(routeDeviation, N(3)))))

\* C19: findMatchingRides returns only rides whose pickup is within
\* maxDistanceKm of the user, each with matchScore = max(0, 100 -
\* (pickupDistance*10 + dropoffDistance*5 + routeDeviation*3)) where
\* routeDeviation is |estimated trip distance - ride.distance_km|; every
\* returned matchScore is above 30 and at most 100, and the result is in
\* descending order of matchScore.
C19_MatchesScoredFilteredSorted ==
  (svcEntry = "findMatchingRides" /\ svpc = "settled"
     /\ svcPromise.state = "fulfilled") =>
    LET matches == svcPromise.value
    IN  /\ \A k \in 1..Len(matches) :
             /\ Includes(matchAvailableRides, matches[k].ride)
             /\ WithinRadius(matches[k].ride)
             /\ matches[k].pickupDistance = PickupDistance(matches[k].ride)
             /\ matches[k].matchScore = ExpectedMatchScore(matches[k].ride)
             /\ FGt(matches[k].matchScore, N(30))
             /\ FLe(matches[k].matchScore, N(100))
        /\ \A k \in 1..(Len(matches) - 1) :
             FGe(matches[k].matchScore, matches[k + 1].matchScore)

\* A ride in range dropped for its score, and the better of the two kept
\* rides moved in front of the one found before it.
C19_Witness ==
  /\ svcEntry = "findMatchingRides"
  /\ svpc = "settled"
  /\ svcPromise.state = "fulfilled"
  /\ Len(ridesWithinPickupRange) = 3
  /\ Len(svcPromise.value) = 2
  /\ svcPromise.value[1].ride = ridesWithinPickupRange[2].ride
  /\ FGt(svcPromise.value[1].matchScore, svcPromise.value[2].matchScore)

\* C15: when retrieving the peer profiles fails (the profile-id query throws
\* or returns nothing, or the fetches of the individual peers fail),
\* getRecommendedRides still returns the results of the hybrid pipeline, with
\* the collaborative score 50 for every candidate: it does not reject and
\* does not go to the basic-matching fallback.
C15_PeerFailureStaysHybrid ==
  (svcEntry = "getRecommendedRides" /\ svpc = "settled"
     /\ (caught \/ peersFailed)) =>
    /\ svcPromise.state = "fulfilled"
    /\ ~caught
    /\ rpc = "done"
    /\ svcPromise.value = recResult
    /\ \A k \in 1..Len(recResult) : recResult[k].collaborativeScore = N(50)

\* C16: once the catch block of getRecommendedRides is entered, the fallback
\* is made from the location, destination and candidate rides the call
\* already holds: no further request goes to the store, and the call
\* fulfils whatever the store does after the first fetch.
C16_FallbackUsesHeldRides ==
  (svcEntry = "getRecommendedRides" /\ svpc = "settled" /\ caught) =>
    /\ Len(storeRequests) = requestsAtCatch
    /\ svcPromise.state = "fulfilled"
    /\ svcPromise.value =
         returnedFor("getRecommendedRides",
                     matchesOf(findNearbyRides(userLocation, availableRides,
                                               DefaultMaxDistanceKm),
                               destination, astarResult.totalDistance))

\* A profile object with its preferences object in place of the reference
WithPreferences(obj, objs) == [obj EXCEPT !.preferences = objs[obj.preferences]]

\* C27: applying feedback never takes a ride away from the rider: every
\* candidate ride that passes deductiveFiltering under the profile given to
\* updateUserProfile passes it under the profile returned, also when
\* preferredVehicleTypes was empty before a positive feedback.
C27_FeedbackNeverShrinksOffers ==
  [][ \A candidate \in RideCatalog :
        keepsRide(candidate,
                  WithPreferences(profiles[Len(profiles)], prefObjs), Home)
          => keepsRide(candidate,
                       WithPreferences(profiles'[Len(profiles')], prefObjs'),
                       Home)
    ]_vars

\* The rides have the shape the select of getAvailableRides gives them
StoreShaped(rs) ==
  /\ rs # <<>>
  /\ \A i \in 1..Len(rs) : DOMAIN rs[i].driver = DOMAIN ProfilesRow("", N(0))

ProviderFailed(response) ==
  \/ response.kind \in {"networkError", "httpError", "badJson"}
  \/ response.kind = "ok" /\ response.routes = <<>>

\* C12: whatever the provider answers to the alternatives request and to
\* the retry, the promise getShortestRoute returned is never rejected; once
\* settled it is fulfilled with a RouteResult, and when the provider failed
\* on the last request made the path holds at least the start and end
\* points, first and last.
C12_FailureNeverSurfaces ==
  /\ routePromise.state # "rejected"
  /\ rtpc = "settled" =>
       /\ routePromise.state = "fulfilled"
       /\ Len(routePromise.value.path) >= 1
       /\ (retryResponse # NoResponse /\ ProviderFailed(retryResponse)) =>
            LET p == routePromise.value.path
            IN  /\ Len(p) >= 2
                /\ p[1] = routeStart
                /\ p[Len(p)] = routeEnd

\* Both requests ended in a network exception and the promise is fulfilled.
C12_Witness ==
  /\ rtpc = "settled"
  /\ altResponse.kind = "networkError"
  /\ retryResponse.kind = "networkError"
  /\ routePromise.state = "fulfilled"
  /\ routeStart # routeEnd

\* C13: when the provider fails, the route returned to the caller of
\* getShortestRoute is the one astarPathfinding computed for start and
\* end: its path and its totalDistance.
C13_FailureEndsInAstar ==
  (rtpc = "settled" /\ ProviderFailed(altResponse)
     /\ ProviderFailed(retryResponse) /\ retryResponse # NoResponse)
    => /\ apc = "done"
       /\ start = routeStart /\ goal = routeEnd
       /\ routePromise.value.path = astarResult.path
       /\ routePromise.value.totalDistance = Fin(astarResult.totalDistance, 1000)

\* C14: when the provider returns one or more alternatives, each with its
\* geometry, getShortestRoute returns the earliest alternative of minimal
\* distance, with totalDistance = that distance / 1000, and asks nothing
\* more of the provider.
C14_ShortestAlternative ==
  (/\ rtpc = "settled"
   /\ altResponse.kind = "ok"
   /\ Len(altResponse.routes) >= 1
   /\ \A i \in 1..Len(altResponse.routes) : altResponse.routes[i].hasGeometry)
    => \E i \in 1..Len(altResponse.routes) :
         LET route == altResponse.routes[i]
             result == routePromise.value
         IN  /\ \A j \in 1..Len(altResponse.routes) :
                  /\ route.distance <= altResponse.routes[j].distance
                  /\ j < i => route.distance < altResponse.routes[j].distance
             /\ result.totalDistance = Fin(route.distance, 1000)
             /\ Len(result.path) = Len(route.coordinates)
             /\ \A k \in 1..Len(result.path) :
                  /\ result.path[k].lng = route.coordinates[k][1]
                  /\ result.path[k].lat = route.coordinates[k][2]
             /\ retryResponse = NoResponse

\* Three alternatives, the first of them the longest and the other two
\* equally short.
C14_Witness ==
  /\ rtpc = "settled"
  /\ altResponse = Response("ok", << RouteMain, RouteTie, RouteShort >>)
  /\ routePromise.value.totalDistance = Fin(2100, 1000)

(***************************************************************************)
(* Properties of calculatePrice                                            *)
(***************************************************************************)
\* The rate table of the fare
RateOf(type) ==
  IF type = "economy" THEN N(1)
  ELSE IF type = "comfort" THEN Fin(3, 2)
  ELSE IF type = "premium" THEN Fin(5, 2)
  ELSE Fin(6, 5)

UnroundedFare == FAdd(Fin(5, 2), FMul(fareDistanceKm, RateOf(fareVehicleType)))

\* C21: calculatePrice(fareDistanceKm, fareVehicleType) is 2.5 + fareDistanceKm * rate
\* rounded to 2 decimal places (a whole number of cents, at most half a cent
\* from the sum), with rate 1.0 for economy, 1.5 for comfort, 2.5 for premium
\* and 1.2 for every other type; every call returns; price(0, economy) is
\* 2.50 and price(10, premium) is 27.50.
C21_PriceRoundedToCents ==
  ppc = "done" =>
    /\ IsFin(UnroundedFare) =>
         /\ IsFin(fare)
         /\ FMul(fare, N(100)).d = 1
         /\ FLe(FAbs(FSub(fare, UnroundedFare)), Fin(1, 200))
    /\ ~IsFin(UnroundedFare) => fare = UnroundedFare
    /\ (fareDistanceKm = N(0) /\ fareVehicleType = "economy") => fare = Fin(250, 100)
    /\ (fareDistanceKm = N(10) /\ fareVehicleType = "premium") => fare = Fin(2750, 100)

\* A type outside the table, and a sum that is not a whole number of cents
C21_Witness ==
  /\ ppc = "done"
  /\ fareVehicleType = "luxury"
  /\ fareDistanceKm = Fin(3, 1000)
  /\ fare = Fin(250, 100)
  /\ fare # UnroundedFare

(***************************************************************************)
(* Properties of the rides table                                           *)
(***************************************************************************)
\* The settled calls of acceptRide on a ride that returned the row
Succeeded(rideId, settled) ==
  { i \in 1..Len(settled) :
      /\ settled[i].op = "acceptRide"
      /\ settled[i].rideId = rideId
      /\ ~settled[i].threw }

\* C25: of the concurrent acceptRide calls of different passengers on a
\* ride that is available, at most one succeeds, and the ride is then
\* accepted with that caller as passenger_id; every other call throws and
\* leaves status and passenger_id as the winner set them.
C25_OneAcceptWins ==
  [][ /\ \A rideId \in RideIds :
           /\ Cardinality(Succeeded(rideId, settledCalls')) <= 1
           /\ \A i \in Succeeded(rideId, settledCalls') :
                /\ rideTable'[rideId].status = "accepted"
                /\ rideTable'[rideId].passenger_id = settledCalls'[i].uid
           /\ rideTable[rideId].status # "available"
                => rideTable'[rideId] = rideTable[rideId]
      /\ \A i \in 1..Len(settledCalls') :
           settledCalls'[i].rideId \notin RideIds => settledCalls'[i].threw
    ]_vars

\* Three passengers had their calls under way together; the store ran the
\* update of p2 first; p1 and p3 threw and p2 got the ride.
C25_Witness ==
  /\ Len(settledCalls) = 3
  /\ \A i \in 1..3 : settledCalls[i].rideId = "ride1"
  /\ settledCalls[1].uid = "p1" /\ settledCalls[1].threw
  /\ settledCalls[2].uid = "p3" /\ settledCalls[2].threw
  /\ settledCalls[3].uid = "p2" /\ ~settledCalls[3].threw
  /\ rideTable["ride1"].passenger_id = "p2"
  /\ rideTable["ride1"].updated_at = 3

\* C26: once a passenger has accepted a ride, no acceptRide or
\* updateRideStatus changes its passenger_id, and the ride is never again
\* among the rides getAvailableRides returns.
C26_AcceptedPassengerKept ==
  [][ \A rideId \in RideIds :
        rideTable[rideId].passenger_id # NoPassenger =>
          /\ rideTable'[rideId].passenger_id = rideTable[rideId].passenger_id
          /\ rideId \notin availableIn(rideTable')
    ]_vars

(***************************************************************************)
(* Properties of the form and of debounce                                  *)
(***************************************************************************)
\* C29: after the user selects a pickup suggestion, pickupLat and pickupLng
\* are the suggestion's coordinates and stay so until the user next edits
\* the pickup address or detects the location: no timer of geocodePickup set
\* earlier and no geocodeAddress answer under way overwrites or clears them.
C29_SelectedCoordinatesKept ==
  selectedSuggestion # << >> =>
    /\ pickupLat = selectedSuggestion[1].lat
    /\ pickupLng = selectedSuggestion[1].lon

\* The invocation after invocation i of the same debounced function, or 0
NextInvocation(i) ==
  LET later == {j \in (i + 1)..Len(invocations) :
                  invocations[j].fn = invocations[i].fn}
  IN IF later = {} THEN 0 ELSE CHOOSE j \in later : \A k \in later : j <= k

\* Invocation i is not the last of its burst: the next invocation follows it
\* by less than wait
Superseded(i) ==
  /\ NextInvocation(i) # 0
  /\ invocations[NextInvocation(i)].at - invocations[i].at
       < waitOf(invocations[i].fn)

\* The executions of func for invocation i
ExecutionsOf(i) == {k \in 1..Len(executions) : executions[k].invocation = i}

\* The timer of invocation i is still set
TimerSet(i) == \E t \in timers : t.invocation = i

\* C30: of the invocations of a debounced function in a burst, each less than
\* wait after the one before, func is executed exactly once, for the last
\* one: with its arguments, and only when wait has passed since it.  func is
\* never executed for a superseded invocation.
C30_DebounceRunsLastOfBurst ==
  \A i \in 1..Len(invocations) :
    /\ Superseded(i) => ExecutionsOf(i) = {} /\ ~TimerSet(i)
    /\ ~Superseded(i) =>
         Cardinality(ExecutionsOf(i)) = (IF TimerSet(i) THEN 0 ELSE 1)
    /\ \A k \in ExecutionsOf(i) :
         /\ executions[k].fn = invocations[i].fn
         /\ executions[k].args = invocations[i].args
         /\ executions[k].at >= invocations[i].at + waitOf(invocations[i].fn)

\* func has been executed for the last invocation of a burst of two, and a
\* later burst of the same function has begun
C30_Witness ==
  \E i \in 1..Len(invocations) :
    /\ Superseded(i)
    /\ ExecutionsOf(NextInvocation(i)) # {}
    /\ invocations[i].args # invocations[NextInvocation(i)].args
    /\ NextInvocation(NextInvocation(i)) # 0

=============================================================================
